---- MODULE Spec2Model ----
(***************************************************************************)
(* Multi-knowledge-base retrieval pipeline of WeKnora:                     *)
(*   SearchKnowledge: buildSearchTargets, then                             *)
(*   CHUNK_SEARCH -> CHUNK_RERANK -> CHUNK_MERGE -> FILTER_TOP_K.          *)
(* CHUNK_SEARCH runs one HybridSearch goroutine per search target; each    *)
(* HybridSearch runs CompositeRetrieveEngine.Retrieve, which runs one      *)
(* goroutine per retriever type (vector, keywords).                        *)
(*                                                                         *)
(* The Go files of the pipeline (session.go, search.go, composite.go, the  *)
(* rerank / merge / top-k plugins) are not among the repository files at   *)
(* hand.  What the code does is taken from the repository's own bug report *)
(* (src/unnamed/part_000) and debug guide (src/docs/api-debug-guide.md)    *)
(* where they record it; the rest follows the design specification.        *)
(*                                                                         *)
(* Scores are scaled by 10: 0.5 is 5.                                      *)
(*                                                                         *)
(* The module also models the access tokens of internal/utils/hmac_token.go *)
(* (GenerateHMACToken, ValidateHMACToken) as a state machine of its own,   *)
(* SpecHmac; the pipeline does not move in it, and the tokens do not move   *)
(* in the specifications of the pipeline.                                  *)
(***************************************************************************)
EXTENDS Integers, Sequences, FiniteSets, TLC

VARIABLES
    request,      \* knowledge_base_ids of the request, in request order
    up,           \* backend state: up[<<kb, m>>] = the retriever call answers
    rerankUp,     \* backend state: the rerank model API answers (no 5xx/timeout)
    pc,           \* orchestrator stage
    arrived,      \* arrived[t]: retriever types of target t, in completion order
    joined,       \* targets whose HybridSearch goroutine has returned, in completion order
    engineOut,    \* engineOut[t]: candidates CompositeRetrieveEngine returned for target t
    engineErr,    \* engineErr[t]: Retrieve returned an error for target t
    searchOut,    \* CHUNK_SEARCH result list (fan-in, completion order)
    searchErr,    \* CHUNK_SEARCH reported the aggregate error
    rerankCalls,  \* passages count of every call issued to the rerank model API
    rerankFailed, \* a rerank model call returned an error
    degraded,     \* number of threshold_degrade retries done
    rerankOut,    \* CHUNK_RERANK result list
    merged,       \* CHUNK_MERGE result list
    result,       \* list returned to the caller
    err,          \* request-level error returned to the caller
    partial,      \* the returned list is tagged partial (context cancelled)
    scenario,     \* backend state: which contents the stores hold
    rerankModel,  \* backend state: which scores the rerank model gives
    embedDown,    \* backend state: knowledge bases whose embedding call fails
    clock,        \* time.Now().Unix()
    token,        \* the token at hand: as generated, or as altered afterwards
    issued,       \* secret, knowledgeID, tenantID and expiry of the generated token
    altered,      \* the field of the token that was replaced after generation
    verdict,      \* what the last ValidateHMACToken call returned, and its inputs
    cfg,          \* OnlyOfficeHandler.cfg / .redis: what the handler is built with
    served,       \* the ServeFile request answered, and how
    kstore,       \* the knowledge the knowledge service holds, and its file
    redis,        \* OnlyOfficeHandler.redis: nil or not, and the keys it holds
    last,         \* the last GetEditorConfig / HandleCallback request: what it
                  \* was answered and which calls it made
    digests,      \* SHA-256 digests computed so far, by generateDocKey input
    keylog,       \* generateDocKey calls made, with the ID read back from the key
    sessions,     \* sessionStore.data: the session IDs it holds
    ctxs,         \* TabCtx and AllocCtx of every session created: live or cancelled
    issuedIDs,    \* number of session IDs CreateSession has returned
    reqs,         \* requests on sessions: begun, looked up, answered
    build,        \* which knowledge_filetype.go is built, and whether init()
                  \* found ebook-convert on PATH
    checked,      \* the last file type or file size check, and its result
    runs,         \* HandleCallback goroutines in flight: where each one is
                  \* and what it has read
    lockKey,      \* Redis key onlyoffice:save:{knowledgeID}: the lock value
                  \* it holds
    trace,        \* what the callbacks handled so far have done, kept to
                  \* state the properties
    handlers,     \* goroutines of the requests on one browser session
    mu,           \* sessionStore.mu: the writer and the readers holding it
    smap,         \* sessionStore.data for that session, and how often its
                  \* TabCancel and AllocCancel were invoked
    screen,       \* SessionInfo.frameSeq and .frameData
    frameMu,      \* SessionInfo.frameMu: the writer and the readers holding it
    listener,     \* the screencast listener: where it is, events it has had
    streamer,     \* ScreenStream: where it is, its locals, the frames written
    ctxDone,      \* the request context and the tab context: done or not
    web,          \* what the public sites answer
    probe,        \* the AnalyzeURL request: where it is, the URL it is at
    sent          \* the URLs the probing client has sent a request to

\* backend state that a run never changes
env == <<scenario, rerankModel, embedDown>>

\* state of the access tokens
hmac == <<clock, token, issued, altered, verdict>>

\* state of the retrieval pipeline
pipeline == <<request, up, rerankUp, pc, arrived, joined, engineOut, engineErr,
              searchOut, searchErr, rerankCalls, rerankFailed, degraded,
              rerankOut, merged, result, err, partial, env>>

\* state of the ONLYOFFICE handler
office == <<cfg, served>>

\* state of the editor configuration and save callbacks
editor == <<kstore, redis, last>>

\* state of the document keys
dockey == <<digests, keylog>>

\* state of the upload checks
files == <<build, checked>>

\* state of the browser sessions
browser == <<sessions, ctxs, issuedIDs, reqs>>

\* state of the callbacks handled concurrently
saving == <<runs, lockKey, trace>>

\* state of the session store under concurrent requests
closing == <<handlers, mu, smap>>

\* state of the screen stream
streaming == <<screen, frameMu, listener, streamer, ctxDone>>

\* state of the URL analysis
probing == <<web, probe, sent>>

\* state of the handlers followed step by step
rest == <<saving, closing, streaming, probing>>

\* the handlers besides ServeFile
others == <<editor, dockey, browser, files, rest>>

\* what the pipeline leaves alone, what the token functions leave alone
nonPipeline == <<hmac, office, others>>

nonHmac == <<pipeline, office, others>>

vars == <<pipeline, hmac, office, others>>

-----------------------------------------------------------------------------
(* Bounds of the model *)

\* longest knowledge_base_ids list explored
MaxTargets == 2

\* largest passages count the rerank model API accepts (about 32 in the
\* deployment of the debug guide), scaled down
RerankMaxBatch == 3

\* rerank_top_k (5 in config.yaml), scaled down so that truncation happens
RerankTopK == 2

-----------------------------------------------------------------------------
(* Configuration: config.yaml / tenant conversation_config *)

VectorThreshold == 5

KeywordThreshold == 3

RerankThreshold == 5

\* threshold used by the single threshold_degrade retry
RerankDegradedThreshold == 3

\* per-knowledge-base override of the vector threshold (KB2 is stricter)
KB2VectorThreshold == 7

-----------------------------------------------------------------------------
(* Backend contents *)

KB1 == "KB1"
KB2 == "KB2"
FakeKB == "fakeKB"

RealKBs == {KB1, KB2}
AllKBs == RealKBs \cup {FakeKB}
Modalities == {"vector", "keyword"}

Cand(p, k, s, m) == [pid |-> p, kb |-> k, score |-> s, mt |-> m]

\* The stores of the end-to-end scenario: KB1 holds one vector match of 0.9,
\* KB2 one vector match of 0.4 and one keyword match of 0.6.
StoreE2E(kb, m) ==
    CASE kb = KB1 /\ m = "vector"  -> << Cand(11, KB1, 9, "vector") >>
      [] kb = KB2 /\ m = "vector"  -> << Cand(12, KB2, 4, "vector") >>
      [] kb = KB2 /\ m = "keyword" -> << Cand(13, KB2, 6, "keyword") >>
      [] OTHER -> << >>

\* What the store of (kb, m) answers, sorted by descending raw score.
\* An unknown knowledge base matches nothing.
Store(kb, m) ==
    CASE scenario = "e2e" -> StoreE2E(kb, m)
      [] kb = KB1 /\ m = "vector"  -> << Cand(1, KB1, 9, "vector"),
                                         Cand(2, KB1, 5, "vector"),
                                         Cand(3, KB1, 4, "vector") >>
      [] kb = KB1 /\ m = "keyword" -> << Cand(2, KB1, 6, "keyword"),
                                         Cand(4, KB1, 2, "keyword") >>
      [] kb = KB2 /\ m = "vector"  -> << Cand(6, KB2, 7, "vector"),
                                         Cand(5, KB2, 6, "vector") >>
      [] kb = KB2 /\ m = "keyword" -> << Cand(7, KB2, 6, "keyword"),
                                         Cand(8, KB2, 3, "keyword") >>
      [] OTHER -> << >>

\* The score a rerank model that finds nothing relevant gives to a passage.
HarshScore == 2

RerankModels == {"base", "harsh"}

\* The rerank model's relevance score of a passage.
RerankScore(p) ==
    CASE rerankModel = "harsh" -> HarshScore
      [] p = 1 -> 9
      [] p = 2 -> 8
      [] p = 6 -> 8
      [] p = 7 -> 4
      [] p = 8 -> 3
      [] p = 11 -> 9
      [] p = 12 -> 7
      [] p = 13 -> 6
      [] OTHER -> 0

Range(s) == {s[i] : i \in DOMAIN s}

Targets == DOMAIN request

-----------------------------------------------------------------------------
(* Composite Retrieval Engine: CompositeRetrieveEngine.Retrieve *)

\* Mutation of Threshold: the keyword threshold is applied to every
\* retriever type.
ThresholdKeywordForAll(kb, m) == KeywordThreshold

\* The score threshold of a retriever type for a knowledge base.
Threshold(kb, m) ==
    IF m = "vector"
    THEN (IF kb = KB2 /\ scenario = "base" THEN KB2VectorThreshold
          ELSE VectorThreshold)
    ELSE KeywordThreshold

\* Mutation of PassesThreshold: a score equal to the threshold is rejected too.
PassesThresholdStrict(c) == c.score > Threshold(c.kb, c.mt)

\* Scores below the threshold are filtered out.
PassesThreshold(c) == c.score >= Threshold(c.kb, c.mt)

\* One retriever call: the candidates that survive the threshold.
Surviving(kb, m) == SelectSeq(Store(kb, m), PassesThreshold)

\* HybridSearch generates the query vector of its target by a call to the
\* embedding API.
EmbedFails(kb) == kb \in embedDown

\* Mutation of EmbedFailureHits: without the query vector the whole target
\* fails.
EmbedFailureHitsAll(kb, m) == EmbedFails(kb)

\* A failed embedding call fails the retriever that needs the query vector.
EmbedFailureHits(kb, m) == m = "vector" /\ EmbedFails(kb)

\* The goroutine of retriever type m returns candidates, not an error.
RetrieverOk(kb, m) == up[<<kb, m>>] /\ ~EmbedFailureHits(kb, m)

\* concurrentRetrieve: the results of the goroutines that succeeded,
\* collected in the order `order` in which the goroutines finished.
RECURSIVE CollectPartial(_, _)
CollectPartial(kb, order) ==
    IF order = << >> THEN << >>
    ELSE (IF RetrieverOk(kb, Head(order)) THEN Surviving(kb, Head(order))
          ELSE << >>)
         \o CollectPartial(kb, Tail(order))

\* Mutation of AllRetrieversFailed: one failed goroutine discards every result
\* (concurrentRetrieve before commit 89e9529).
AnyRetrieverFailed(kb) == \E m \in Modalities : ~RetrieverOk(kb, m)

\* concurrentRetrieve returns an error only when every retriever failed.
AllRetrieversFailed(kb) == \A m \in Modalities : ~RetrieverOk(kb, m)

-----------------------------------------------------------------------------
(* CHUNK_SEARCH fan-in: searchByTargets *)

\* Mutation of UnionInto: the candidates of a target are appended as they are.
AppendAll(acc, cs) == acc \o cs

\* Append the candidates of one target to the list; a candidate already in
\* the list (the same knowledge base searched twice) is not added again.
RECURSIVE UnionInto(_, _)
UnionInto(acc, cs) ==
    IF cs = << >> THEN acc
    ELSE UnionInto(IF Head(cs) \in Range(acc) THEN acc ELSE Append(acc, Head(cs)),
                   Tail(cs))

\* Mutation of AllTargetsFailed: one failed target fails the stage.
AnyTargetFailed(errs) == \E t \in DOMAIN errs : errs[t]

\* The stage fails only when every target failed.
AllTargetsFailed(errs) == \A t \in DOMAIN errs : errs[t]

-----------------------------------------------------------------------------
(* CHUNK_RERANK *)

\* The passages sent in one model call: the whole candidate list.
RerankBatch(cands) == cands

\* The rerank model API answers a call of n passages.
RerankCallSucceeds(n) == rerankUp /\ n <= RerankMaxBatch

\* A candidate with the model's score (the candidate itself is kept).
Scored(c) == [pid |-> c.pid, kb |-> c.kb, score |-> c.score, mt |-> c.mt,
              rscore |-> RerankScore(c.pid)]

\* A candidate that was never scored by the rerank model.
Unscored(c) == [pid |-> c.pid, kb |-> c.kb, score |-> c.score, mt |-> c.mt,
                rscore |-> -1]

ScoredAll(s) == [i \in DOMAIN s |-> Scored(s[i])]

UnscoredAll(s) == [i \in DOMAIN s |-> Unscored(s[i])]

AtLeast(s, th) == LET Keep(c) == c.rscore >= th IN SelectSeq(s, Keep)

\* Drop the candidates below rerank_threshold; when nothing is left, retry
\* once with the degraded threshold.
NeedsDegrade(scored) == AtLeast(scored, RerankThreshold) = << >>

\* Mutation of DegradeRetryLimit: the stage keeps lowering the threshold.
DegradeTwice == 1 + 1

\* threshold_degrade retries allowed per query
DegradeRetryLimit == 1

\* The threshold of the retry that follows a pass with threshold th.
LowerThreshold(th) ==
    IF th > RerankDegradedThreshold THEN RerankDegradedThreshold ELSE 0

\* Filter with threshold th; when nothing survives and a retry is left,
\* filter again with the lower threshold.  Returns the survivors and the
\* number of retries done.
RECURSIVE FilterWithDegrade(_, _, _)
FilterWithDegrade(scored, th, left) ==
    LET kept == AtLeast(scored, th)
    IN IF kept = << >> /\ left > 0
       THEN LET again == FilterWithDegrade(scored, LowerThreshold(th), left - 1)
            IN [out |-> again.out, retries |-> again.retries + 1]
       ELSE [out |-> kept, retries |-> 0]

DegradeRetries(scored) ==
    FilterWithDegrade(scored, RerankThreshold, DegradeRetryLimit).retries

ApplyRerankThreshold(scored) ==
    FilterWithDegrade(scored, RerankThreshold, DegradeRetryLimit).out

\* What the stage outputs when the model call returned an error.
RerankOnError(cands) == << >>

-----------------------------------------------------------------------------
(* CHUNK_MERGE *)

Max(a, b) == IF a >= b THEN a ELSE b

Entry(c) == [pid |-> c.pid, kb |-> c.kb, score |-> c.score,
             rscore |-> c.rscore, mts |-> {c.mt}]

\* Mutation of MergeOne: every candidate becomes an entry of its own.
MergeNoDedup(acc, c) == Append(acc, Entry(c))

\* Fold candidate c into the merged list: one entry per passage, with the
\* highest scores and every match type.
MergeOne(acc, c) ==
    IF \E i \in DOMAIN acc : acc[i].pid = c.pid
    THEN [i \in DOMAIN acc |->
            IF acc[i].pid = c.pid
            THEN [acc[i] EXCEPT !.score = Max(@, c.score),
                                !.rscore = Max(@, c.rscore),
                                !.mts = @ \cup {c.mt}]
            ELSE acc[i]]
    ELSE Append(acc, Entry(c))

RECURSIVE MergeInto(_, _)
MergeInto(acc, cs) ==
    IF cs = << >> THEN acc ELSE MergeInto(MergeOne(acc, Head(cs)), Tail(cs))

MergeCandidates(cs) == MergeInto(<< >>, cs)

-----------------------------------------------------------------------------
(* FILTER_TOP_K *)

\* Rerank score if present, otherwise the raw score of the retriever.
EffectiveScore(e) == IF e.rscore >= 0 THEN e.rscore ELSE e.score

\* Mutation of RankedBefore: no tie-break, equal scores stay in arrival order.
RankedByScoreOnly(e, f) == EffectiveScore(e) > EffectiveScore(f)

\* e is ranked before f: higher effective score, ties by passage id ascending.
RankedBefore(e, f) ==
    \/ EffectiveScore(e) > EffectiveScore(f)
    \/ EffectiveScore(e) = EffectiveScore(f) /\ e.pid < f.pid

\* Mutation of InsertSorted: the entry is put at the end, the list is not
\* sorted.
InsertAtEnd(s, e) == Append(s, e)

\* Stable insertion of e into the sorted list s.
RECURSIVE InsertSorted(_, _)
InsertSorted(s, e) ==
    IF s = << >> THEN << e >>
    ELSE IF RankedBefore(e, Head(s)) THEN << e >> \o s
    ELSE << Head(s) >> \o InsertSorted(Tail(s), e)

RECURSIVE SortInto(_, _)
SortInto(acc, es) ==
    IF es = << >> THEN acc ELSE SortInto(InsertSorted(acc, Head(es)), Tail(es))

SortByEffectiveScore(es) == SortInto(<< >>, es)

\* Mutation of TruncateTopK: the sorted list is returned whole.
NoTruncation(es) == es

TruncateTopK(es) ==
    IF Len(es) > RerankTopK THEN SubSeq(es, 1, RerankTopK) ELSE es

FilterTopK(es) == TruncateTopK(SortByEffectiveScore(es))

-----------------------------------------------------------------------------
(* Pipeline: SearchKnowledge *)

\* buildSearchTargets: one SearchTarget per requested knowledge base id,
\* repeated ids included.  Target t searches knowledge base request[t].
RECURSIVE SeqsUpTo(_, _)
SeqsUpTo(S, n) ==
    IF n = 0 THEN {<< >>}
    ELSE LET shorter == SeqsUpTo(S, n - 1)
         IN shorter \cup {Append(s, x) : s \in shorter, x \in S}

Requests == SeqsUpTo(AllKBs, MaxTargets) \ {<< >>}

\* The stages of the pipeline, in the order in which they run.
Stages == << "Search", "Rerank", "Merge", "FilterTopK" >>

\* Mutation of NextStage: CHUNK_MERGE is left out of the pipeline.
NextStageSkipsMerge(stage) ==
    CASE stage = "Search" -> "Rerank"
      [] stage = "Rerank" -> "FilterTopK"
      [] OTHER -> "Done"

\* The stage that follows `stage`; the request is done after the last one.
NextStage(stage) ==
    CASE stage = "Search" -> "Rerank"
      [] stage = "Rerank" -> "Merge"
      [] stage = "Merge" -> "FilterTopK"
      [] OTHER -> "Done"

\* Mutation of BackendStates: a query on a knowledge base that does not exist
\* is answered with an error.
BackendStatesUnknownFails ==
    {f \in [AllKBs \X Modalities -> BOOLEAN] :
        \A m \in Modalities : ~f[<<FakeKB, m>>]}

\* A query on a knowledge base that does not exist is answered with no
\* matches; that is a success, not a backend error.
BackendStates ==
    {f \in [AllKBs \X Modalities -> BOOLEAN] :
        \A m \in Modalities : f[<<FakeKB, m>>]}

\* Before GenerateHMACToken is called: no token, no validation.
NoToken == [set |-> FALSE, body |-> << >>, sig |-> << >>]

NoIssue == [secret |-> "", kid |-> << >>, tid |-> 0, ttl |-> 0, expiry |-> 0]

NoVerdict == [called |-> FALSE, secret |-> "", at |-> 0,
              kid |-> << >>, tid |-> 0, err |-> ""]

\* ServeFile has answered no request.
NoServe == [called |-> FALSE, id |-> << >>, status |-> 0, fileCall |-> FALSE,
            streamed |-> FALSE, tenant |-> 0]

\* A stored knowledge: test.docx, parsed, never edited.
KnowledgeAtRest == [fileName |-> << "test", "docx" >>, parseStatus |-> "completed",
                    updatedAt |-> 0, fileRev |-> 0]

\* Redis configured, no key set.
RedisAtRest == [present |-> TRUE, dirty |-> FALSE, edited |-> FALSE]

\* No call made by a request.
NoCalls == [lookups |-> 0, tenantLookups |-> 0, downloads |-> 0,
            overwrites |-> 0, updates |-> 0, redisWrites |-> 0, reparses |-> 0]

\* The JSON body of no answer.
NoBody == [error |-> "", mode |-> "", edit |-> FALSE, fileType |-> "",
           documentType |-> ""]

\* What a request asked and what it found: nothing.
NoAsk == [id |-> << >>, mode |-> "", token |-> "", status |-> 0, key |-> << >>,
          fault |-> "none", fileName |-> << >>, parseStatus |-> "",
          dirty |-> FALSE, signed |-> FALSE]

\* No GetEditorConfig or HandleCallback request answered.
NoRequest == [handler |-> "none", status |-> 0, body |-> NoBody,
              asked |-> NoAsk, calls |-> NoCalls]

\* The editor configuration and the save callbacks at rest.
EditorIdle ==
    /\ kstore = KnowledgeAtRest
    /\ redis = RedisAtRest
    /\ last = NoRequest

\* No document key generated.
DocKeyIdle ==
    /\ digests = << >>
    /\ keylog = << >>

\* No browser session created, no request made.
BrowserIdle ==
    /\ sessions = {}
    /\ ctxs = << >>
    /\ issuedIDs = 0
    /\ reqs = << >>

\* No upload checked.
NoCheck == [op |-> "none", dir |-> "", base |-> << >>, fileType |-> "",
            size |-> 0, strategy |-> "", valid |-> FALSE, limit |-> 0,
            err |-> << >>]

FilesIdle ==
    /\ build = [part |-> "part_002", calibre |-> FALSE]
    /\ checked = NoCheck

\* A HandleCallback goroutine that handles no callback.
NoRun == [pc |-> "idle", status |-> 0, fault |-> "none", dirty |-> FALSE,
          gen |-> 0, parseStatus |-> "", ran |-> FALSE, ok |-> FALSE,
          owes |-> FALSE, did |-> "none"]

\* No callback handled yet.
NoTrace == [begun |-> 0, dirtyGen |-> 0, reparsed |-> {}, twice |-> FALSE,
            owed |-> FALSE, unparsed |-> FALSE, lastMark |-> 0]

\* No callback in flight, the save lock free.
SavingIdle ==
    /\ runs = [g \in {"g1", "g2"} |-> NoRun]
    /\ lockKey = "none"
    /\ trace = NoTrace

\* No request on the session, the store empty and its mutex free.
ClosingIdle ==
    /\ handlers = [h \in {"r1", "r2", "r3", "create"} |->
                      [op |-> "none", pc |-> "idle", found |-> FALSE, status |-> 0]]
    /\ mu = [writer |-> "none", readers |-> {}]
    /\ smap = [stored |-> FALSE, tabCancels |-> 0, allocCancels |-> 0]

\* No screencast frame yet, no stream open.
StreamingIdle ==
    /\ screen = [frameSeq |-> 0, frameData |-> 0]
    /\ frameMu = [writer |-> "none", readers |-> {}]
    /\ listener = [pc |-> "wait", events |-> 0]
    /\ streamer = [pc |-> "idle", lastSeq |-> 0, seq |-> 0, data |-> 0,
                   written |-> << >>]
    /\ ctxDone = [req |-> FALSE, tab |-> FALSE]

\* No URL analysed; every public site answers a page.
ProbingIdle ==
    /\ web = [u \in {[scheme |-> "http", host |-> "8.8.8.8"],
                      [scheme |-> "https", host |-> "example.com"]} |->
                 [kind |-> "html", to |-> [scheme |-> "", host |-> ""]]]
    /\ probe = [pc |-> "idle", url |-> [scheme |-> "", host |-> ""],
                at |-> [scheme |-> "", host |-> ""], via |-> 0, status |-> 0]
    /\ sent = {}

RestIdle ==
    /\ SavingIdle
    /\ ClosingIdle
    /\ StreamingIdle
    /\ ProbingIdle

OthersIdle ==
    /\ EditorIdle
    /\ DocKeyIdle
    /\ BrowserIdle
    /\ FilesIdle
    /\ RestIdle

\* The ONLYOFFICE handler at rest: integration configured, nothing asked.
OfficeIdle ==
    /\ cfg = [enabled |-> TRUE, hmacSecret |-> "s1"]
    /\ served = NoServe
    /\ OthersIdle

\* The access tokens at rest.
TokensIdle ==
    /\ clock = 0
    /\ token = NoToken
    /\ issued = NoIssue
    /\ altered = "none"
    /\ verdict = NoVerdict

\* Backend states of the embedding API: it fails for no knowledge base, or
\* for one of the real ones.
EmbedStates == {{}} \cup {{kb} : kb \in RealKBs}

\* The state after SearchKnowledge has built its targets.
Start ==
    /\ request \in Requests
    /\ up \in BackendStates
    /\ rerankUp \in BOOLEAN
    /\ pc = "Search"
    /\ arrived = [t \in DOMAIN request |-> << >>]
    /\ joined = << >>
    /\ engineOut = [t \in DOMAIN request |-> << >>]
    /\ engineErr = [t \in DOMAIN request |-> FALSE]
    /\ searchOut = << >>
    /\ searchErr = FALSE
    /\ rerankCalls = << >>
    /\ rerankFailed = FALSE
    /\ degraded = 0
    /\ rerankOut = << >>
    /\ merged = << >>
    /\ result = << >>
    /\ err = FALSE
    /\ partial = FALSE

\* The stores of the deployment, either rerank model, embedding API healthy.
Init ==
    /\ Start
    /\ TokensIdle
    /\ OfficeIdle
    /\ scenario = "base"
    /\ rerankModel \in RerankModels
    /\ embedDown = {}

\* The goroutine of retriever type m of target t finishes (VectorRetrieve /
\* KeywordsRetrieve returned, with candidates or with an error).
RetrieverDone(t, m) ==
    /\ pc = "Search"
    /\ m \notin Range(arrived[t])
    /\ arrived' = [arrived EXCEPT ![t] = Append(@, m)]
    /\ UNCHANGED <<nonPipeline, env, request, up, rerankUp, pc, joined, engineOut, engineErr,
                   searchOut, searchErr, rerankCalls, rerankFailed, degraded,
                   rerankOut, merged, result, err, partial>>

\* Both retriever goroutines of target t are in: Retrieve returns, the
\* HybridSearch goroutine of t hands its result to searchByTargets.
HybridSearchDone(t) ==
    /\ pc = "Search"
    /\ t \notin Range(joined)
    /\ Range(arrived[t]) = Modalities
    /\ LET kb == request[t]
           failed == AllRetrieversFailed(kb)
           out == IF failed THEN << >> ELSE CollectPartial(kb, arrived[t])
       IN /\ engineErr' = [engineErr EXCEPT ![t] = failed]
          /\ engineOut' = [engineOut EXCEPT ![t] = out]
          /\ searchOut' = UnionInto(searchOut, out)
    /\ joined' = Append(joined, t)
    /\ UNCHANGED <<nonPipeline, env, request, up, rerankUp, pc, arrived, searchErr, rerankCalls,
                   rerankFailed, degraded, rerankOut, merged, result, err,
                   partial>>

\* Every target is in: CHUNK_SEARCH ends.
SearchStage ==
    /\ pc = "Search"
    /\ Range(joined) = Targets
    /\ searchErr' = AllTargetsFailed(engineErr)
    /\ pc' = NextStage(pc)
    /\ UNCHANGED <<nonPipeline, env, request, up, rerankUp, arrived, joined, engineOut,
                   engineErr, searchOut, rerankCalls, rerankFailed, degraded,
                   rerankOut, merged, result, err, partial>>

\* CHUNK_RERANK: one model call with the passages of the candidate list.
RerankStage ==
    /\ pc = "Rerank"
    /\ pc' = NextStage(pc)
    /\ IF searchOut = << >>
       THEN /\ rerankOut' = << >>
            /\ UNCHANGED <<rerankCalls, rerankFailed, degraded>>
       ELSE LET batch == RerankBatch(searchOut)
                scored == ScoredAll(batch)
            IN /\ rerankCalls' = Append(rerankCalls, Len(batch))
               /\ IF RerankCallSucceeds(Len(batch))
                  THEN /\ rerankFailed' = FALSE
                       /\ degraded' = DegradeRetries(scored)
                       /\ rerankOut' = ApplyRerankThreshold(scored)
                  ELSE /\ rerankFailed' = TRUE
                       /\ degraded' = 0
                       /\ rerankOut' = RerankOnError(searchOut)
    /\ UNCHANGED <<nonPipeline, env, request, up, rerankUp, arrived, joined, engineOut,
                   engineErr, searchOut, searchErr, merged, result, err,
                   partial>>

\* CHUNK_MERGE
MergeStage ==
    /\ pc = "Merge"
    /\ merged' = MergeCandidates(rerankOut)
    /\ pc' = NextStage(pc)
    /\ UNCHANGED <<nonPipeline, env, request, up, rerankUp, arrived, joined, engineOut,
                   engineErr, searchOut, searchErr, rerankCalls, rerankFailed,
                   degraded, rerankOut, result, err, partial>>

\* FILTER_TOP_K, then the answer to the caller: the ranked list, or the
\* aggregate error of CHUNK_SEARCH.
FilterTopKStage ==
    /\ pc = "FilterTopK"
    /\ result' = FilterTopK(merged)
    /\ err' = searchErr
    /\ pc' = NextStage(pc)
    /\ UNCHANGED <<nonPipeline, env, request, up, rerankUp, arrived, joined, engineOut,
                   engineErr, searchOut, searchErr, rerankCalls, rerankFailed,
                   degraded, rerankOut, merged, partial>>

\* Mutation of Collected: all-or-nothing abort, the results of the targets
\* that had completed are dropped.
CollectedNothing == << >>

\* What has been collected when the caller's context ends.
Collected ==
    CASE pc \in {"Search", "Rerank"} -> MergeCandidates(UnscoredAll(searchOut))
      [] pc = "Merge" -> MergeCandidates(rerankOut)
      [] OTHER -> merged

\* The caller's context is cancelled or its deadline expires.
Cancel ==
    /\ pc \in Range(Stages)
    /\ pc' = "Aborted"
    /\ result' = FilterTopK(Collected)
    /\ partial' = TRUE
    /\ UNCHANGED <<nonPipeline, env, request, up, rerankUp, arrived, joined, engineOut,
                   engineErr, searchOut, searchErr, rerankCalls, rerankFailed,
                   degraded, rerankOut, merged, err>>

Next ==
    \/ \E t \in Targets, m \in Modalities : RetrieverDone(t, m)
    \/ \E t \in Targets : HybridSearchDone(t)
    \/ SearchStage
    \/ RerankStage
    \/ MergeStage
    \/ FilterTopKStage
    \/ Cancel

Spec == Init /\ [][Next]_vars

\* The end-to-end scenario: its stores, the default thresholds for both
\* knowledge bases, a rerank model that finds every passage relevant.
InitE2E ==
    /\ Start
    /\ TokensIdle
    /\ OfficeIdle
    /\ scenario = "e2e"
    /\ rerankModel = "base"
    /\ embedDown = {}

SpecE2E == InitE2E /\ [][Next]_vars

\* The stores of the deployment with an embedding API that may fail for
\* one knowledge base.
InitEmbed ==
    /\ Start
    /\ TokensIdle
    /\ OfficeIdle
    /\ scenario = "base"
    /\ rerankModel = "base"
    /\ embedDown \in EmbedStates

SpecEmbed == InitEmbed /\ [][Next]_vars

-----------------------------------------------------------------------------
(* Access tokens: internal/utils/hmac_token.go                              *)
(* A string is a sequence of one-character strings.  A token is the string *)
(*   body ":" signature                                                    *)
(* kept as the characters of body and the signature apart, because the     *)
(* signature is the only part that is not made of characters here.         *)

\* longest knowledgeID explored
MaxIdLen == 2

\* longest ttl explored, in seconds
MaxTTL == 2

\* time.Now().Unix() when the model starts
Epoch == 8

\* the clock stops after the latest expiry has passed
MaxTime == Epoch + MaxTTL + 1

Secrets == {"s1", "s2"}

\* characters of a knowledgeID: a plain one and the separator of the token
IdChars == {"k", ":"}

KnowledgeIDs == SeqsUpTo(IdChars, MaxIdLen)

TenantIDs == {7, 42}

TTLs == 0 .. MaxTTL

Digits == << "0", "1", "2", "3", "4", "5", "6", "7", "8", "9" >>

\* Mutation of FormatInt: only the last digit is written.
FormatIntLastDigit(n) == << Digits[(n % 10) + 1] >>

\* fmt.Sprintf("%d", n)
RECURSIVE FormatInt(_)
FormatInt(n) ==
    IF n < 0 THEN << "-" >> \o FormatInt(0 - n)
    ELSE IF n < 10 THEN << Digits[n + 1] >>
    ELSE FormatInt(n \div 10) \o << Digits[(n % 10) + 1] >>

DigitValue(c) == CHOOSE d \in 0 .. 9 : Digits[d + 1] = c

RECURSIVE DecimalValue(_)
DecimalValue(s) ==
    IF s = << >> THEN 0
    ELSE DecimalValue(SubSeq(s, 1, Len(s) - 1)) * 10 + DigitValue(s[Len(s)])

\* strconv.ParseUint(s, 10, 64) returns no error: decimal digits only.
ParseUintOk(s) == s # << >> /\ \A i \in DOMAIN s : s[i] \in Range(Digits)

\* strconv.ParseInt(s, 10, 64) returns no error: an optional sign, then
\* decimal digits.
ParseIntOk(s) ==
    /\ s # << >>
    /\ ParseUintOk(IF s[1] \in {"+", "-"} THEN Tail(s) ELSE s)

ParseIntValue(s) ==
    CASE s[1] = "-" -> 0 - DecimalValue(Tail(s))
      [] s[1] = "+" -> DecimalValue(Tail(s))
      [] OTHER -> DecimalValue(s)

\* fmt.Sprintf("%s:%d:%d", knowledgeID, tenantID, expiry)
Payload(knowledgeID, tenantID, expiry) ==
    knowledgeID \o << ":" >> \o FormatInt(tenantID) \o << ":" >>
        \o FormatInt(expiry)

\* hex(HMAC-SHA256(secret, payload)): the tag stands for the pair it was
\* computed from, two tags are equal exactly when secret and payload are.
Sign(secret, payload) == << secret, payload >>

\* GenerateHMACToken, called when the clock shows `t`.
GenerateHMACToken(secret, knowledgeID, tenantID, ttl, t) ==
    LET payload == Payload(knowledgeID, tenantID, t + ttl)
    IN [set |-> TRUE, body |-> payload, sig |-> Sign(secret, payload)]

\* strings.SplitN(s, ":", n): cut at the first n - 1 separators.
RECURSIVE SplitN(_, _)
SplitN(s, n) ==
    IF n <= 1 \/ ":" \notin Range(s) THEN << s >>
    ELSE LET i == CHOOSE k \in DOMAIN s :
                     s[k] = ":" /\ \A j \in 1 .. (k - 1) : s[j] # ":"
         IN << SubSeq(s, 1, i - 1) >> \o SplitN(SubSeq(s, i + 1, Len(s)), n - 1)

\* strings.Join(parts, ":")
RECURSIVE Join(_)
Join(parts) ==
    IF Len(parts) = 1 THEN parts[1]
    ELSE parts[1] \o << ":" >> \o Join(Tail(parts))

\* strings.SplitN(token, ":", 4) on body ":" signature.  The last part is
\* the signature, or what is left of the body, a separator and the
\* signature.  A string that carries no signature at all (sig empty) is
\* its body alone.
TokenParts(tok) ==
    LET b == SplitN(tok.body, 4)
    IN IF tok.sig = << >>
       THEN (IF Len(b) = 4
             THEN << b[1], b[2], b[3], [pre |-> b[4], sig |-> << >>] >>
             ELSE b)
       ELSE IF Len(b) = 4
       THEN << b[1], b[2], b[3], [pre |-> b[4] \o << ":" >>, sig |-> tok.sig] >>
       ELSE Append(b, [pre |-> << >>, sig |-> tok.sig])

\* Mutation of HmacEqual: the signature is not looked at.
SkipSignatureCheck(part, expected) == TRUE

\* hmac.Equal([]byte(parts[3]), []byte(expected))
HmacEqual(part, expected) == part.pre = << >> /\ part.sig = expected

Rejected(reason) == [kid |-> << >>, tid |-> 0, err |-> reason]

\* Mutation of Expired: the token is already refused in its last second.
ExpiredAtExpiry(t, expiry) == t >= expiry

\* time.Now().Unix() > expiry
Expired(t, expiry) == t > expiry

\* ValidateHMACToken, called when the clock shows `t`.
ValidateHMACToken(secret, tok, t) ==
    LET parts == TokenParts(tok)
    IN IF Len(parts) # 4 THEN Rejected("invalid token format")
       ELSE IF ~ParseUintOk(parts[2]) THEN Rejected("invalid tenant ID")
       ELSE IF ~ParseIntOk(parts[3]) THEN Rejected("invalid expiry")
       ELSE LET knowledgeID == parts[1]
                tenantID == DecimalValue(parts[2])
                expiry == ParseIntValue(parts[3])
            IN IF Expired(t, expiry) THEN Rejected("token expired")
               ELSE IF ~HmacEqual(parts[4],
                                  Sign(secret,
                                       Payload(knowledgeID, tenantID, expiry)))
                    THEN Rejected("invalid signature")
               ELSE [kid |-> knowledgeID, tid |-> tenantID, err |-> "nil"]

\* The strings a holder of a token may put in the place of one of its
\* fields.
FieldNames == << "knowledgeID", "tenantID", "expiry" >>

Replacements(i) ==
    CASE i = 1 -> KnowledgeIDs
      [] i = 2 -> {FormatInt(n) : n \in TenantIDs} \cup {<< "0", "7" >>, << "x" >>}
      [] OTHER -> {FormatInt(n) : n \in (Epoch - 1) .. (MaxTime + 1)}
                     \cup {<< "-", "1" >>, << "x" >>}

\* The pipeline at rest.
PipelineIdle ==
    /\ request = << KB1 >>
    /\ up = [x \in AllKBs \X Modalities |-> TRUE]
    /\ rerankUp = TRUE
    /\ pc = "Done"
    /\ arrived = << << >> >>
    /\ joined = << >>
    /\ engineOut = << << >> >>
    /\ engineErr = << FALSE >>
    /\ searchOut = << >>
    /\ searchErr = FALSE
    /\ rerankCalls = << >>
    /\ rerankFailed = FALSE
    /\ degraded = 0
    /\ rerankOut = << >>
    /\ merged = << >>
    /\ result = << >>
    /\ err = FALSE
    /\ partial = FALSE
    /\ scenario = "base"
    /\ rerankModel = "base"
    /\ embedDown = {}

InitHmac ==
    /\ PipelineIdle
    /\ OfficeIdle
    /\ clock = Epoch
    /\ token = NoToken
    /\ issued = NoIssue
    /\ altered = "none"
    /\ verdict = NoVerdict

\* A token is generated.
Generate(secret, knowledgeID, tenantID, ttl) ==
    /\ ~token.set
    /\ token' = GenerateHMACToken(secret, knowledgeID, tenantID, ttl, clock)
    /\ issued' = [secret |-> secret, kid |-> knowledgeID, tid |-> tenantID,
                  ttl |-> ttl, expiry |-> clock + ttl]
    /\ UNCHANGED <<nonHmac, clock, altered, verdict>>

\* The holder replaces field i of the token by the string v:
\* parts := strings.SplitN(token, ":", 4); parts[i] = v;
\* strings.Join(parts, ":").
Tamper(i, v) ==
    /\ token.set
    /\ altered = "none"
    /\ ~verdict.called
    /\ LET b == SplitN(token.body, 4)
       IN /\ i \in DOMAIN b
          /\ b[i] # v
          /\ token' = [token EXCEPT !.body = Join([b EXCEPT ![i] = v])]
    /\ altered' = FieldNames[i]
    /\ UNCHANGED <<nonHmac, clock, issued, verdict>>

\* A second passes.
Tick ==
    /\ clock < MaxTime
    /\ clock' = clock + 1
    /\ UNCHANGED <<nonHmac, token, issued, altered, verdict>>

\* The token at hand is validated with `secret`.
Validate(secret) ==
    /\ token.set
    /\ LET r == ValidateHMACToken(secret, token, clock)
       IN verdict' = [called |-> TRUE, secret |-> secret, at |-> clock,
                      kid |-> r.kid, tid |-> r.tid, err |-> r.err]
    /\ UNCHANGED <<nonHmac, clock, token, issued, altered>>

NextHmac ==
    \/ \E secret \in Secrets, knowledgeID \in KnowledgeIDs,
          tenantID \in TenantIDs, ttl \in TTLs :
            Generate(secret, knowledgeID, tenantID, ttl)
    \/ \E i \in DOMAIN FieldNames : \E v \in Replacements(i) : Tamper(i, v)
    \/ Tick
    \/ \E secret \in Secrets : Validate(secret)

SpecHmac == InitHmac /\ [][NextHmac]_vars

-----------------------------------------------------------------------------
(* ONLYOFFICE handler: internal/handler/onlyoffice.go, ServeFile            *)

\* Strings that were never generated, sent as ?token=: one without any
\* field, one with the four fields of a token, a live expiry and a made-up
\* signature.
ForgedTokens ==
    { << "k" >>,
      << "k", ":", "7", ":" >> \o FormatInt(MaxTime) \o << ":", "k" >> }

\* Mutation of TokenMatches: the knowledgeID of the token is not compared
\* with the document asked for.
TokenMatchesAny(tokenKID, knowledgeID) == TRUE

\* tokenKID != knowledgeID is refused
TokenMatches(tokenKID, knowledgeID) == tokenKID = knowledgeID

\* ServeFile for document `id` with the token at hand, when the clock shows
\* `t`; `found` says whether GetKnowledgeFile finds the file.
ServeFileReply(id, t, found) ==
    IF ~cfg.enabled
    THEN [NoServe EXCEPT !.called = TRUE, !.id = id, !.status = 404]
    ELSE LET r == ValidateHMACToken(cfg.hmacSecret, token, t)
         IN IF r.err # "nil"
            THEN [NoServe EXCEPT !.called = TRUE, !.id = id, !.status = 403]
            ELSE IF ~TokenMatches(r.kid, id)
            THEN [NoServe EXCEPT !.called = TRUE, !.id = id, !.status = 403]
            ELSE [called |-> TRUE, id |-> id,
                  status |-> IF found THEN 200 ELSE 404,
                  fileCall |-> TRUE, streamed |-> found, tenant |-> r.tid]

InitServe ==
    /\ PipelineIdle
    /\ cfg \in [enabled : BOOLEAN, hmacSecret : {"s1"}]
    /\ served = NoServe
    /\ OthersIdle
    /\ clock = Epoch
    /\ token = NoToken
    /\ issued = NoIssue
    /\ altered = "none"
    /\ verdict = NoVerdict

\* A string that is no generated token is at hand.
Forge(body) ==
    /\ ~token.set
    /\ token' = [set |-> TRUE, body |-> body, sig |-> << >>]
    /\ UNCHANGED <<nonHmac, clock, issued, altered, verdict>>

\* GET /api/v1/onlyoffice/file/:id?token=... is answered.
ServeFile(id, found) ==
    /\ ~served.called
    /\ served' = ServeFileReply(id, clock, found)
    /\ UNCHANGED <<pipeline, hmac, cfg, others>>

\* Tokens are generated, altered or made up and age until the one request
\* is answered.
NextServe ==
    \/ /\ ~served.called
       /\ \E secret \in Secrets, knowledgeID \in KnowledgeIDs,
             tenantID \in TenantIDs, ttl \in TTLs :
               Generate(secret, knowledgeID, tenantID, ttl)
    \/ /\ ~served.called
       /\ \E i \in DOMAIN FieldNames : \E v \in Replacements(i) : Tamper(i, v)
    \/ /\ ~served.called
       /\ \E body \in ForgedTokens : Forge(body)
    \/ ~served.called /\ Tick
    \/ \E id \in KnowledgeIDs, found \in BOOLEAN : ServeFile(id, found)

SpecServe == InitServe /\ [][NextServe]_vars

-----------------------------------------------------------------------------
(* ONLYOFFICE handler: internal/handler/onlyoffice.go, GetEditorConfig      *)
(* A file name is the sequence of its parts between the dots, as written:  *)
(* "test.docx" is << "test", "docx" >>.                                    *)

\* extension -> ONLYOFFICE document type
docTypeMap ==
    [ext \in {"docx", "doc", "odt", "rtf", "txt", "docm", "dotx", "epub",
              "html", "htm", "fb2"} |-> "word"]
    @@ [ext \in {"xlsx", "xls", "ods", "csv", "xlsm", "xltx"} |-> "cell"]
    @@ [ext \in {"pptx", "ppt", "odp", "pptm", "ppsx", "potx"} |-> "slide"]
    @@ [ext \in {"pdf"} |-> "pdf"]

\* formats that support editing
editableTypes == {"docx", "xlsx", "pptx", "odt", "ods", "odp", "csv", "txt", "rtf"}

\* strings.ToLower on the name parts the file names below are made of
ToLower(part) ==
    CASE part = "DOCX" -> "docx"
      [] part = "Pdf" -> "pdf"
      [] part = "REPORT" -> "report"
      [] part = "CSS" -> "css"
      [] part = "TXT" -> "txt"
      [] part = "Makefile" -> "makefile"
      [] part = "Dockerfile" -> "dockerfile"
      [] part = "DOCKERFILE" -> "dockerfile"
      [] part = "Gemfile" -> "gemfile"
      [] part = "GemFile" -> "gemfile"
      [] part = "Rakefile" -> "rakefile"
      [] part = "RAKEFILE" -> "rakefile"
      [] part = "CMakeLists" -> "cmakelists"
      [] part = "README" -> "readme"
      [] OTHER -> part

\* strings.TrimPrefix(filepath.Ext(fileName), "."): the text after the last
\* dot, empty when the name has no dot
ExtOf(fileName) ==
    IF Len(fileName) >= 2 THEN fileName[Len(fileName)] ELSE ""

\* File names of stored knowledges.
FileNames ==
    { << "test", "docx" >>, << "legacy", "doc" >>, << "data", "xyz" >>,
      << "REPORT", "DOCX" >>, << "scan", "Pdf" >>, << "README" >>,
      << "notes", "docx", "txt" >>, << "archive", "docx", "zip" >> }

ParseStatuses == {"pending", "processing", "completed", "failed"}

\* Mutation of BeingParsed: edit is not downgraded while the document is
\* being parsed.
NeverBeingParsed(parseStatus) == FALSE

\* types.ParseStatusPending / types.ParseStatusProcessing
BeingParsed(parseStatus) == parseStatus \in {"pending", "processing"}

\* The ID of the stored knowledge, and an ID the knowledge service does
\* not know.
StoredID == << "k", "_" >>

UnknownID == << "k" >>

\* ?mode= of the request; "" is a request without the parameter.
RequestedModes == {"", "view", "edit", "EDIT", "review"}

\* c.DefaultQuery("mode", "view"), then anything but view / edit is view
NormalMode(mode) ==
    LET given == IF mode = "" THEN "view" ELSE mode
    IN IF given # "view" /\ given # "edit" THEN "view" ELSE given

\* GetEditorConfig for knowledge `id` with ?mode=`mode`; signOk says whether
\* signing the configuration succeeds.
GetEditorConfigReply(id, mode, signOk) ==
    LET ask == [NoAsk EXCEPT !.id = id, !.mode = mode,
                             !.fileName = kstore.fileName,
                             !.parseStatus = kstore.parseStatus]
        looked == [NoCalls EXCEPT !.lookups = 1]
        asked == NormalMode(mode)
        allowed == IF asked = "edit" /\ BeingParsed(kstore.parseStatus)
                   THEN "view" ELSE asked
        ext == ToLower(ExtOf(kstore.fileName))
        canEdit == allowed = "edit" /\ ext \in editableTypes
        effectiveMode == IF ~canEdit THEN "view" ELSE allowed
    IN IF ~cfg.enabled
       THEN [handler |-> "GetEditorConfig", status |-> 404,
             body |-> [NoBody EXCEPT !.error = "ONLYOFFICE not configured"],
             asked |-> ask, calls |-> NoCalls]
       ELSE IF id # StoredID
       THEN [handler |-> "GetEditorConfig", status |-> 404,
             body |-> [NoBody EXCEPT !.error = "knowledge not found"],
             asked |-> ask, calls |-> looked]
       ELSE IF ext \notin DOMAIN docTypeMap
       THEN [handler |-> "GetEditorConfig", status |-> 400,
             body |-> [NoBody EXCEPT !.error = "unsupported file type"],
             asked |-> ask, calls |-> looked]
       ELSE IF ~signOk
       THEN [handler |-> "GetEditorConfig", status |-> 500,
             body |-> [NoBody EXCEPT !.error = "failed to sign config"],
             asked |-> ask, calls |-> looked]
       ELSE [handler |-> "GetEditorConfig", status |-> 200,
             body |-> [error |-> "", mode |-> effectiveMode, edit |-> canEdit,
                       fileType |-> ext, documentType |-> docTypeMap[ext]],
             asked |-> ask, calls |-> looked]

\* Any stored file, in any parse status; the integration configured or not.
InitEditor ==
    /\ PipelineIdle
    /\ TokensIdle
    /\ cfg \in [enabled : BOOLEAN, hmacSecret : {"s1"}]
    /\ served = NoServe
    /\ kstore \in [fileName : FileNames, parseStatus : ParseStatuses,
                    updatedAt : {0}, fileRev : {0}]
    /\ redis = RedisAtRest
    /\ last = NoRequest
    /\ DocKeyIdle
    /\ BrowserIdle
    /\ FilesIdle
    /\ RestIdle

\* GET /api/v1/onlyoffice/config/:id?mode=... is answered.
GetEditorConfig(id, mode, signOk) ==
    /\ last' = GetEditorConfigReply(id, mode, signOk)
    /\ UNCHANGED <<pipeline, hmac, office, rest, files, kstore, redis, dockey, browser>>

\* The parser moves the knowledge to another parse status.
ParseProgress(parseStatus) ==
    /\ parseStatus # kstore.parseStatus
    /\ kstore' = [kstore EXCEPT !.parseStatus = parseStatus]
    /\ UNCHANGED <<pipeline, hmac, office, rest, files, redis, last, dockey, browser>>

NextEditor ==
    \/ \E id \in {StoredID, UnknownID}, mode \in RequestedModes,
          signOk \in BOOLEAN : GetEditorConfig(id, mode, signOk)
    \/ \E parseStatus \in ParseStatuses : ParseProgress(parseStatus)

SpecEditor == InitEditor /\ [][NextEditor]_vars

-----------------------------------------------------------------------------
(* ONLYOFFICE handler: internal/handler/onlyoffice.go, HandleCallback       *)
(* A JWT is what it was signed with: the method and the secret.  A         *)
(* callback is the JSON body (status, key, token) and, inside a JWT, the   *)
(* status and key claims.                                                  *)

\* Successive saves of one document that a run follows.
MaxSaves == 2

\* OnlyOffice.JWTSecret of the configured integration
JWTSecret == "j1"

\* Methods of type *jwt.SigningMethodHMAC
HMACMethods == {"HS256", "HS384", "HS512"}

\* The 8 hexadecimal characters a document key ends with.
SomeDigest == << "a", "b", "c", "1", "2", "3", "4", "5" >>

\* Document keys a callback carries: of the stored knowledge, and a key
\* without underscore that names no knowledge.
StoredKey == StoredID \o << "_" >> \o SomeDigest

CallbackKeys == { StoredKey, UnknownID }

\* Mutation of LastIndex: the first underscore is taken.
FirstIndex(str, ch) ==
    IF \E i \in DOMAIN str : str[i] = ch
    THEN (CHOOSE i \in DOMAIN str :
              str[i] = ch /\ \A j \in DOMAIN str : str[j] = ch => i <= j) - 1
    ELSE 0 - 1

\* strings.LastIndex(str, ch): 0-based, -1 when ch does not occur
LastIndex(str, ch) ==
    IF \E i \in DOMAIN str : str[i] = ch
    THEN (CHOOSE i \in DOMAIN str :
              str[i] = ch /\ \A j \in DOMAIN str : str[j] = ch => j <= i) - 1
    ELSE 0 - 1

\* knowledgeID := key; if idx := LastIndex(key, "_"); idx > 0 { key[:idx] }
ExtractKnowledgeID(key) ==
    LET idx == LastIndex(key, "_")
    IN IF idx > 0 THEN SubSeq(key, 1, idx) ELSE key

NoClaims == [status |-> 0, key |-> << >>]

\* The token field of a callback body.
CallbackTokens ==
    { [form |-> f, alg |-> "", secret |-> "", claims |-> NoClaims] :
          f \in {"absent", "empty", "malformed"} }
    \cup { [form |-> "jwt", alg |-> "HS256", secret |-> "j2",
            claims |-> [status |-> 2, key |-> StoredKey]],
           [form |-> "jwt", alg |-> "RS256", secret |-> JWTSecret,
            claims |-> [status |-> 2, key |-> StoredKey]] }
    \cup { [form |-> "jwt", alg |-> "HS256", secret |-> JWTSecret, claims |-> c] :
              c \in { NoClaims, [status |-> 2, key |-> StoredKey],
                      [status |-> 4, key |-> StoredKey] } }

\* Mutation of ParseJWT: the signature of a well-formed JWT is not verified.
ParseJWTUnverified(tok) == tok.form = "jwt"

\* parser.Parse(cb.Token, keyfunc) returns no error: the token is a JWT of
\* an HMAC method signed with the configured secret
ParseJWT(tok) ==
    /\ tok.form = "jwt"
    /\ tok.alg \in HMACMethods
    /\ tok.secret = JWTSecret

\* How a callback token is told apart in the record of a request.
TokenClass(tok) ==
    CASE tok.form # "jwt" -> tok.form
      [] tok.alg \notin HMACMethods -> "nonHmac"
      [] tok.secret # JWTSecret -> "wrongSecret"
      [] OTHER -> "valid"

CallbackStatuses == {0, 1, 2, 4, 6}

\* The callbacks: a body that is no JSON object of the expected shape, and
\* bodies with any status, key and token.
Callbacks ==
    { [bound |-> FALSE, status |-> 0, key |-> << >>,
       token |-> [form |-> "absent", alg |-> "", secret |-> "", claims |-> NoClaims]] }
    \cup [bound : {TRUE}, status : CallbackStatuses,
          key : CallbackKeys \cup {<< >>}, token : CallbackTokens]

\* What may go wrong while a callback is handled: at most one of the
\* tenant lookup, taking the save lock, the download, OverwriteBytes,
\* UpdateKnowledge, ReparseKnowledge.  Redis answers when it is there, and
\* a knowledge found once is found again by the re-reads.
Faults == {"none", "tenant", "lock", "download", "overwrite", "update",
           "reparse"}

\* The faults a callback of effective status `status` can meet.
FaultsOf(status) ==
    CASE status = 4 -> {"none", "tenant", "update", "reparse"}
      [] status \in {2, 6} -> Faults
      [] OTHER -> {"none"}

\* cb.Status and cb.Key after the claims have filled what the body left zero
EffectiveStatus(cb) ==
    IF cb.status = 0 THEN cb.token.claims.status ELSE cb.status

EffectiveKey(cb) ==
    IF cb.key = << >> THEN cb.token.claims.key ELSE cb.key

\* The status and the key the handler goes by are those of the verified
\* token's claims.
Signed(cb) ==
    /\ ParseJWT(cb.token)
    /\ EffectiveStatus(cb) = cb.token.claims.status
    /\ EffectiveKey(cb) = cb.token.claims.key

\* c.JSON(http.StatusOK, gin.H{"error": 0})
ErrorZero(ask, calls) ==
    [handler |-> "HandleCallback", status |-> 200,
     body |-> [NoBody EXCEPT !.error = "0"], asked |-> ask, calls |-> calls]

\* A nil pointer dereference ends the handler: the recovery middleware
\* answers 500, without it the connection is closed with no answer.
Panicked(ask, calls, recovered) ==
    [handler |-> "HandleCallback", status |-> IF recovered THEN 500 ELSE 0,
     body |-> [NoBody EXCEPT !.error = "panic"], asked |-> ask, calls |-> calls]

\* Mutation of IsDirty: a closed document always counts as autosaved.
AlwaysDirty(r) == TRUE

\* dirty: Redis is there and GetDel of the dirty key returned "1"
IsDirty(r) == r.present /\ r.dirty

\* Status 4 with a valid token: document closed without new changes.
Closed(ask, id, fault) ==
    LET dirty == IsDirty(redis)
        r1 == IF redis.present THEN [redis EXCEPT !.dirty = FALSE] ELSE redis
        c1 == [NoCalls EXCEPT !.redisWrites = IF dirty THEN 1 ELSE 0]
        c2 == [c1 EXCEPT !.lookups = 1]
        c3 == [c2 EXCEPT !.tenantLookups = 1]
        c4 == [c3 EXCEPT !.updates = 1]
        k4 == IF fault = "update" THEN kstore
              ELSE [kstore EXCEPT !.updatedAt = @ + 1]
    IN IF ~dirty
       THEN [kstore |-> kstore, redis |-> r1, last |-> ErrorZero(ask, c1)]
       ELSE IF id # StoredID
       THEN [kstore |-> kstore, redis |-> r1, last |-> ErrorZero(ask, c2)]
       ELSE IF fault = "tenant"
       THEN [kstore |-> kstore, redis |-> r1, last |-> ErrorZero(ask, c3)]
       ELSE IF BeingParsed(kstore.parseStatus)
       THEN [kstore |-> k4, redis |-> [r1 EXCEPT !.edited = TRUE],
             last |-> ErrorZero(ask, [c4 EXCEPT !.redisWrites = @ + 1])]
       ELSE [kstore |-> k4, redis |-> r1,
             last |-> ErrorZero(ask, [c4 EXCEPT !.reparses = 1])]

\* The function withSaveLock runs under the lock: download, re-read,
\* overwrite in place, update.  ok says whether it returned nil.
SaveUnderLock(status, fault, calls) ==
    LET c1 == [calls EXCEPT !.downloads = 1]
        c2 == [c1 EXCEPT !.lookups = @ + 1]
        c3 == [c2 EXCEPT !.overwrites = 1]
        c4 == [c3 EXCEPT !.updates = 1]
        k3 == [kstore EXCEPT !.fileRev = @ + 1]
        k4 == IF status = 2 THEN [k3 EXCEPT !.updatedAt = @ + 1] ELSE k3
    IN CASE fault = "download" -> [ok |-> FALSE, kstore |-> kstore, calls |-> c1]
         [] fault = "overwrite" -> [ok |-> FALSE, kstore |-> kstore, calls |-> c3]
         [] fault = "update" -> [ok |-> FALSE, kstore |-> k3, calls |-> c4]
         [] OTHER -> [ok |-> TRUE, kstore |-> k4, calls |-> c4]

\* Status 2 or 6 with a valid token: the edited file is saved.
Saved(ask, id, status, fault, recovered) ==
    LET c1 == [NoCalls EXCEPT !.lookups = 1]
        c2 == [c1 EXCEPT !.tenantLookups = 1]
        locked == [c2 EXCEPT !.redisWrites = 2]
        save == SaveUnderLock(status, fault, locked)
        r6 == [redis EXCEPT !.dirty = TRUE]
        r2 == [redis EXCEPT !.dirty = FALSE]
        c6 == [save.calls EXCEPT !.redisWrites = @ + 1]
        c7 == [c6 EXCEPT !.lookups = @ + 1]
    IN IF id # StoredID
       THEN [kstore |-> kstore, redis |-> redis, last |-> ErrorZero(ask, c1)]
       ELSE IF fault = "tenant"
       THEN [kstore |-> kstore, redis |-> redis, last |-> ErrorZero(ask, c2)]
       ELSE IF ~redis.present
       THEN [kstore |-> kstore, redis |-> redis,
             last |-> Panicked(ask, c2, recovered)]
       ELSE IF fault = "lock"
       THEN [kstore |-> kstore, redis |-> redis, last |-> ErrorZero(ask, c2)]
       ELSE IF ~save.ok
       THEN [kstore |-> save.kstore, redis |-> redis,
             last |-> ErrorZero(ask, save.calls)]
       ELSE IF status = 6
       THEN [kstore |-> save.kstore, redis |-> r6, last |-> ErrorZero(ask, c6)]
       ELSE IF BeingParsed(kstore.parseStatus)
       THEN [kstore |-> save.kstore, redis |-> [r2 EXCEPT !.edited = TRUE],
             last |-> ErrorZero(ask, [c7 EXCEPT !.redisWrites = @ + 1])]
       ELSE [kstore |-> save.kstore, redis |-> r2,
             last |-> ErrorZero(ask, [c7 EXCEPT !.reparses = 1])]

\* HandleCallback for callback cb: the knowledge, the Redis keys and the
\* record of the request afterwards.
HandleCallbackOutcome(cb, fault, recovered) ==
    LET status == EffectiveStatus(cb)
        key == EffectiveKey(cb)
        id == ExtractKnowledgeID(key)
        early == [NoAsk EXCEPT !.token = TokenClass(cb.token),
                               !.status = cb.status,
                               !.parseStatus = kstore.parseStatus,
                               !.dirty = redis.dirty,
                               !.signed = Signed(cb)]
        ask == [early EXCEPT !.id = id, !.status = status, !.fault = fault]
        untouched(a) == [kstore |-> kstore, redis |-> redis,
                         last |-> ErrorZero(a, NoCalls)]
    IN IF ~cfg.enabled THEN untouched(early)
       ELSE IF ~cb.bound THEN untouched(early)
       ELSE IF cb.token.form \in {"absent", "empty"} THEN untouched(early)
       ELSE IF ~ParseJWT(cb.token) THEN untouched(early)
       ELSE IF status = 4 THEN Closed(ask, id, fault)
       ELSE IF status # 2 /\ status # 6 THEN untouched(ask)
       ELSE Saved(ask, id, status, fault, recovered)

\* test.docx stored and in any parse status, the integration configured or
\* not, the handler built with or without a Redis client.
InitCallback ==
    /\ PipelineIdle
    /\ TokensIdle
    /\ cfg \in [enabled : BOOLEAN, hmacSecret : {"s1"}]
    /\ served = NoServe
    /\ kstore \in [fileName : {<< "test", "docx" >>}, parseStatus : ParseStatuses,
                    updatedAt : {0}, fileRev : {0}]
    /\ redis \in [present : BOOLEAN, dirty : {FALSE}, edited : {FALSE}]
    /\ last = NoRequest
    /\ DocKeyIdle
    /\ BrowserIdle
    /\ FilesIdle
    /\ RestIdle

\* POST /api/v1/onlyoffice/callback is handled.
HandleCallback(cb, fault, recovered) ==
    /\ kstore.fileRev < MaxSaves
    /\ kstore.updatedAt < MaxSaves
    /\ \E out \in {HandleCallbackOutcome(cb, fault, recovered)} :
          /\ kstore' = out.kstore
          /\ redis' = out.redis
          /\ last' = out.last
    /\ UNCHANGED <<pipeline, hmac, office, rest, files, dockey, browser>>

NextCallback ==
    \/ \E cb \in Callbacks :
          \E fault \in (IF ParseJWT(cb.token) THEN FaultsOf(EffectiveStatus(cb))
                                                ELSE {"none"}) :
             \E recovered \in (IF redis.present THEN {TRUE} ELSE BOOLEAN) :
                HandleCallback(cb, fault, recovered)
    \/ \E parseStatus \in ParseStatuses : ParseProgress(parseStatus)

SpecCallback == InitCallback /\ [][NextCallback]_vars

-----------------------------------------------------------------------------
(* ONLYOFFICE handler: HandleCallback goroutines running side by side      *)
(* gin serves every callback on a goroutine of its own.  Each call of the  *)
(* handler to Redis, to the knowledge service, to the file service and to  *)
(* the document server is one step; the steps of the goroutines            *)
(* interleave.  All callbacks carry a valid token and the key of the       *)
(* stored knowledge, and the handler is built with a Redis client.         *)

\* Callbacks a run follows.
MaxCallbacks == 3

\* The goroutines that handle callbacks side by side.
Goroutines == {"g1", "g2"}

\* Status 2 (final save), 4 (closed without changes), 6 (force save)
HandledStatuses == {2, 4, 6}

\* fn of withSaveLock is executing: download, re-read and overwrite, update
SavePcs == {"download", "overwrite", "update"}

InSave(g) == runs[g].pc \in SavePcs

\* Mutation of HoldsValue: the unlock script deletes whatever the key holds.
HoldsAnyValue(key, lockValue) == TRUE

\* redis.call("get",KEYS[1]) == ARGV[1]
HoldsValue(key, lockValue) == key = lockValue

\* Mutation of GetDel: the dirty key is read and left in place.
GetKeep(r) == r

\* h.redis.GetDel(ctx, dirtyKey): the key is gone afterwards
GetDel(r) == [r EXCEPT !.dirty = FALSE]

\* Mutation of DirtyAfterSave: every successful save sets the dirty key.
DirtyAfterAnySave(status) == TRUE

\* The dirty key after a successful save: set on status 6, deleted on
\* status 2
DirtyAfterSave(status) == status = 6

\* The goroutine g moves to the record r.
Goes(g, r) == runs' = [runs EXCEPT ![g] = r]

\* What the goroutines of this section leave alone.
nonSaving == <<pipeline, hmac, office, files, dockey, browser, last, closing,
               streaming, probing>>

\* test.docx stored and in any parse status, Redis holding no key, no
\* callback in flight.
InitSave ==
    /\ PipelineIdle
    /\ TokensIdle
    /\ cfg = [enabled |-> TRUE, hmacSecret |-> "s1"]
    /\ served = NoServe
    /\ kstore \in [fileName : {<< "test", "docx" >>}, parseStatus : ParseStatuses,
                    updatedAt : {0}, fileRev : {0}]
    /\ redis = RedisAtRest
    /\ last = NoRequest
    /\ DocKeyIdle
    /\ BrowserIdle
    /\ FilesIdle
    /\ RestIdle

\* A callback of the given status arrives and passes the JWT check.
Receive(g, status) ==
    /\ runs[g].pc = "idle"
    /\ trace.begun < MaxCallbacks
    /\ Goes(g, [NoRun EXCEPT !.pc = IF status = 4 THEN "getdel" ELSE "lookup",
                             !.status = status,
                             !.owes = (status = 4 /\ trace.owed)])
    /\ trace' = [trace EXCEPT !.begun = @ + 1,
                              !.owed = IF status = 4 THEN FALSE ELSE @]
    /\ UNCHANGED <<nonSaving, kstore, redis, lockKey>>

\* Status 4: GetDel of the dirty key.  answers: Redis returned no error.
ReadDirty(g, answers) ==
    /\ runs[g].pc = "getdel"
    /\ LET dirty == answers /\ redis.dirty
       IN /\ redis' = IF answers THEN GetDel(redis) ELSE redis
          /\ Goes(g, [runs[g] EXCEPT
                         !.pc = IF dirty THEN "lookup" ELSE "answer",
                         !.fault = IF answers THEN "none" ELSE "redis",
                         !.dirty = dirty,
                         !.gen = IF dirty THEN trace.dirtyGen ELSE 0])
    /\ UNCHANGED <<nonSaving, kstore, lockKey, trace>>

\* GetKnowledgeByIDOnly and GetTenantByID.  found: both returned no error.
\* On status 4 the parse status of this read decides on the reparse.
LookUp(g, found) ==
    /\ runs[g].pc = "lookup"
    /\ Goes(g, [runs[g] EXCEPT
                   !.pc = IF ~found THEN "answer"
                          ELSE IF runs[g].status = 4 THEN "update4"
                          ELSE "setnx",
                   !.fault = IF found THEN "none" ELSE "lookup",
                   !.parseStatus = IF found /\ runs[g].status = 4
                                   THEN kstore.parseStatus ELSE ""])
    /\ UNCHANGED <<nonSaving, kstore, redis, lockKey, trace>>

\* Status 4: knowledge.UpdatedAt = time.Now(), UpdateKnowledge; an error is
\* logged and the handler goes on.
Touch(g, updated) ==
    /\ runs[g].pc = "update4"
    /\ kstore' = IF updated THEN [kstore EXCEPT !.updatedAt = @ + 1] ELSE kstore
    /\ Goes(g, [runs[g] EXCEPT !.pc = "decide"])
    /\ UNCHANGED <<nonSaving, redis, lockKey, trace>>

\* withSaveLock: SetNX of the lock key, and once more 500 ms later.
\* answers: Redis returned no error.
SetNX(g, answers) ==
    /\ runs[g].pc \in {"setnx", "retry"}
    /\ LET acquired == answers /\ lockKey = "none"
           again == answers /\ runs[g].pc = "setnx"
       IN /\ lockKey' = IF acquired THEN g ELSE lockKey
          /\ Goes(g, [runs[g] EXCEPT
                         !.pc = IF acquired THEN "download"
                                ELSE IF again THEN "retry" ELSE "mark",
                         !.fault = IF acquired \/ again THEN "none" ELSE "lock"])
    /\ UNCHANGED <<nonSaving, kstore, redis, trace>>

\* fn: downloadCallbackFile, up to two minutes long.
Download(g, fetched) ==
    /\ runs[g].pc = "download"
    /\ Goes(g, [runs[g] EXCEPT !.pc = IF fetched THEN "overwrite" ELSE "unlock",
                               !.fault = IF fetched THEN "none" ELSE "download",
                               !.ran = TRUE])
    /\ UNCHANGED <<nonSaving, kstore, redis, lockKey, trace>>

\* fn: the knowledge is re-read and the file overwritten in place.
Overwrite(g, written) ==
    /\ runs[g].pc = "overwrite"
    /\ kstore' = IF written THEN [kstore EXCEPT !.fileRev = @ + 1] ELSE kstore
    /\ trace' = IF written THEN [trace EXCEPT !.unparsed = TRUE] ELSE trace
    /\ Goes(g, [runs[g] EXCEPT !.pc = IF written THEN "update" ELSE "unlock",
                               !.fault = IF written THEN "none" ELSE "overwrite"])
    /\ UNCHANGED <<nonSaving, redis, lockKey>>

\* fn: FileSize, on status 2 UpdatedAt, UpdateKnowledge.
Update(g, updated) ==
    /\ runs[g].pc = "update"
    /\ kstore' = IF updated /\ runs[g].status = 2
                 THEN [kstore EXCEPT !.updatedAt = @ + 1] ELSE kstore
    /\ Goes(g, [runs[g] EXCEPT !.pc = "unlock",
                               !.fault = IF updated THEN "none" ELSE "update",
                               !.ok = updated])
    /\ UNCHANGED <<nonSaving, redis, lockKey, trace>>

\* withSaveLock, deferred: the unlock script.
Unlock(g) ==
    /\ runs[g].pc = "unlock"
    /\ lockKey' = IF HoldsValue(lockKey, g) THEN "none" ELSE lockKey
    /\ Goes(g, [runs[g] EXCEPT !.pc = "mark"])
    /\ UNCHANGED <<nonSaving, kstore, redis, trace>>

\* After withSaveLock: a failed save is logged; a status 6 save sets the
\* dirty key; a status 2 save deletes it.
Mark(g) ==
    /\ runs[g].pc = "mark"
    /\ LET saved == runs[g].ok
           status == runs[g].status
       IN /\ redis' = IF saved THEN [redis EXCEPT !.dirty = DirtyAfterSave(status)]
                      ELSE redis
          /\ trace' = IF saved /\ status = 6
                      THEN [trace EXCEPT !.dirtyGen = @ + 1, !.lastMark = 6]
                      ELSE IF saved THEN [trace EXCEPT !.lastMark = 2]
                      ELSE trace
          /\ Goes(g, [runs[g] EXCEPT
                         !.pc = IF saved /\ status = 2 THEN "recheck"
                                ELSE "answer"])
    /\ UNCHANGED <<nonSaving, kstore, lockKey>>

\* Status 2: the knowledge is re-read for its current parse status.
Recheck(g, found) ==
    /\ runs[g].pc = "recheck"
    /\ Goes(g, [runs[g] EXCEPT
                   !.pc = IF found THEN "decide" ELSE "answer",
                   !.fault = IF found THEN "none" ELSE "recheck",
                   !.parseStatus = IF found THEN kstore.parseStatus ELSE ""])
    /\ UNCHANGED <<nonSaving, kstore, redis, lockKey, trace>>

\* The reparse is deferred through the edited-during-parse key, or
\* ReparseKnowledge is called.
Decide(g) ==
    /\ runs[g].pc = "decide"
    /\ LET defer == BeingParsed(runs[g].parseStatus)
           again == runs[g].status = 4 /\ runs[g].gen \in trace.reparsed
       IN /\ redis' = IF defer THEN [redis EXCEPT !.edited = TRUE] ELSE redis
          /\ trace' = IF defer THEN [trace EXCEPT !.unparsed = FALSE]
                      ELSE IF runs[g].status = 4
                      THEN [trace EXCEPT !.unparsed = FALSE,
                                         !.reparsed = @ \cup {runs[g].gen},
                                         !.twice = @ \/ again]
                      ELSE [trace EXCEPT !.unparsed = FALSE]
          /\ Goes(g, [runs[g] EXCEPT
                         !.pc = "answer",
                         !.did = IF defer THEN "defer" ELSE "reparse"])
    /\ UNCHANGED <<nonSaving, kstore, lockKey>>

\* c.JSON(http.StatusOK, gin.H{"error": 0}): the goroutine ends.
Answer(g) ==
    /\ runs[g].pc = "answer"
    /\ trace' = [trace EXCEPT
                    !.owed = IF runs[g].ok /\ runs[g].status = 6 THEN TRUE
                             ELSE IF runs[g].ok /\ runs[g].status = 2 THEN FALSE
                             ELSE @]
    /\ Goes(g, NoRun)
    /\ UNCHANGED <<nonSaving, kstore, redis, lockKey>>

\* The time to live of a Redis key runs out: 10 seconds for the lock key,
\* 24 hours for the dirty key, 1 hour for the edited-during-parse key.
Expire(key) ==
    /\ \/ key = "lock" /\ lockKey # "none" /\ lockKey' = "none" /\ UNCHANGED redis
       \/ key = "dirty" /\ redis.dirty /\ redis' = [redis EXCEPT !.dirty = FALSE]
          /\ UNCHANGED lockKey
       \/ key = "edited" /\ redis.edited /\ redis' = [redis EXCEPT !.edited = FALSE]
          /\ UNCHANGED lockKey
    /\ UNCHANGED <<nonSaving, kstore, runs, trace>>

NextSave ==
    \/ \E g \in Goroutines, status \in HandledStatuses : Receive(g, status)
    \/ \E g \in Goroutines, answers \in BOOLEAN : ReadDirty(g, answers)
    \/ \E g \in Goroutines, found \in BOOLEAN : LookUp(g, found)
    \/ \E g \in Goroutines, updated \in BOOLEAN : Touch(g, updated)
    \/ \E g \in Goroutines, answers \in BOOLEAN : SetNX(g, answers)
    \/ \E g \in Goroutines, fetched \in BOOLEAN : Download(g, fetched)
    \/ \E g \in Goroutines, written \in BOOLEAN : Overwrite(g, written)
    \/ \E g \in Goroutines, updated \in BOOLEAN : Update(g, updated)
    \/ \E g \in Goroutines : Unlock(g)
    \/ \E g \in Goroutines : Mark(g)
    \/ \E g \in Goroutines, found \in BOOLEAN : Recheck(g, found)
    \/ \E g \in Goroutines : Decide(g)
    \/ \E g \in Goroutines : Answer(g)
    \/ \E key \in {"lock", "dirty", "edited"} : Expire(key)
    \/ \E parseStatus \in {"processing", "completed"} :
          ParseProgress(parseStatus)

SpecSave == InitSave /\ [][NextSave]_vars

-----------------------------------------------------------------------------
(* ONLYOFFICE handler: internal/handler/onlyoffice.go, generateDocKey       *)
(* SHA-256 is a function nothing is known of but that it is one: the first *)
(* time an input is hashed any digest may come out, and the same digest    *)
(* comes out every time after.                                             *)

\* updatedAt.UnixNano() takes the values 0 .. MaxStamp
MaxStamp == 2

\* generateDocKey calls that a run follows
MaxKeys == 2

Stamps == 0 .. MaxStamp

\* Knowledge IDs: the empty one, and IDs without, with one and with two
\* underscores.
DocIDs ==
    { << >>, << "k" >>, << "k", "_" >>, << "_", "k" >>, << "k", "_", "k" >>,
      << "_", "_" >> }

HexChars == {"0", "1", "2", "3", "4", "5", "6", "7", "8", "9",
             "a", "b", "c", "d", "e", "f"}

\* hex.EncodeToString(h[:])[:8]: fewer values than there are inputs
DigestValues == { SomeDigest, << "0", "0", "f", "f", "9", "e", "7", "d" >> }

\* fmt.Sprintf("%s_%d", knowledgeID, updatedAt.UnixNano())
DocKeyInput(knowledgeID, updatedAt) ==
    knowledgeID \o << "_" >> \o FormatInt(updatedAt)

\* knowledgeID + "_" + the first 8 hexadecimal characters of the digest
generateDocKey(knowledgeID, digest) == knowledgeID \o << "_" >> \o digest

InitDocKey ==
    /\ PipelineIdle
    /\ TokensIdle
    /\ cfg = [enabled |-> TRUE, hmacSecret |-> "s1"]
    /\ served = NoServe
    /\ EditorIdle
    /\ BrowserIdle
    /\ FilesIdle
    /\ RestIdle
    /\ digests = << >>
    /\ keylog = << >>

\* generateDocKey(knowledgeID, updatedAt) is called; HandleCallback reads
\* the knowledge ID back from the key.
GenerateDocKey(knowledgeID, updatedAt, digest) ==
    LET input == DocKeyInput(knowledgeID, updatedAt)
        key == generateDocKey(knowledgeID, digest)
    IN /\ Len(keylog) < MaxKeys
       /\ IF input \in DOMAIN digests
          THEN digest = digests[input] /\ UNCHANGED digests
          ELSE digests' = digests @@ (input :> digest)
       /\ keylog' = Append(keylog, [id |-> knowledgeID, updatedAt |-> updatedAt,
                                    digest |-> digest, key |-> key,
                                    extracted |-> ExtractKnowledgeID(key)])
       /\ UNCHANGED <<pipeline, hmac, office, rest, files, editor, browser>>

NextDocKey ==
    \E knowledgeID \in DocIDs, updatedAt \in Stamps, digest \in DigestValues :
        GenerateDocKey(knowledgeID, updatedAt, digest)

SpecDocKey == InitDocKey /\ [][NextDocKey]_vars

-----------------------------------------------------------------------------
(* Browser sessions: internal/handler/browser.go                            *)
(* Session IDs are 1, 2, ... in the order CreateSession returns them; 0 is *)
(* an ID that CreateSession never returns.  A request on a session begins, *)
(* looks the session up under the read lock, and is answered; requests run *)
(* side by side.                                                           *)

\* Sessions created and requests made in a run
MaxSessions == 1

MaxRequests == 2

SessionIDs == 0 .. MaxSessions

SessionOps == {"CloseSession", "Capture", "ScreenStream", "SendInput"}

\* Session IDs for which a CloseSession has answered 204.
ClosedIDs == { reqs[i].id : i \in { j \in DOMAIN reqs :
                   reqs[j].op = "CloseSession" /\ reqs[j].status = 204 } }

\* sessionStore.Get
StoreGet(store, id) == id \in store

\* Mutation of StoreDelete: the entry stays in the map.
StoreDeleteNothing(store, id) == store

\* sessionStore.Delete: delete(s.data, id)
StoreDelete(store, id) == store \ {id}

\* What a handler answers once it holds the session.
Served(op) ==
    CASE op = "Capture" -> {200, 400}
      [] op = "ScreenStream" -> {200}
      [] op = "SendInput" -> {204, 400, 500}
      [] OTHER -> {204}

InitBrowser ==
    /\ PipelineIdle
    /\ TokensIdle
    /\ cfg = [enabled |-> TRUE, hmacSecret |-> "s1"]
    /\ served = NoServe
    /\ EditorIdle
    /\ DocKeyIdle
    /\ BrowserIdle
    /\ FilesIdle
    /\ RestIdle

\* POST /browser/session succeeds: the session is stored under a fresh ID
\* and 200 is answered.  (When it fails it cancels the contexts it made,
\* stores nothing and returns no ID.)
CreateSession ==
    /\ issuedIDs < MaxSessions
    /\ issuedIDs' = issuedIDs + 1
    /\ sessions' = sessions \cup {issuedIDs + 1}
    /\ ctxs' = Append(ctxs, [tab |-> "live", alloc |-> "live"])
    /\ UNCHANGED <<pipeline, hmac, office, rest, files, editor, dockey, reqs>>

\* A request of handler op for session id arrives; bound says whether its
\* JSON body binds.
Begin(op, id, bound) ==
    /\ Len(reqs) < MaxRequests
    /\ reqs' = Append(reqs, [op |-> op, id |-> id, bound |-> bound,
                              pc |-> "begun", status |-> 0,
                              afterClose |-> id \in ClosedIDs])
    /\ UNCHANGED <<pipeline, hmac, office, rest, files, editor, dockey, sessions, ctxs,
                   issuedIDs>>

\* The handler of request i reaches h.sessions.Get: Capture has bound its
\* body first and answers 400 when that failed; a session that is not in
\* the store is answered 404.
Lookup(i) ==
    /\ reqs[i].pc = "begun"
    /\ reqs' = [reqs EXCEPT ![i] =
          IF reqs[i].op = "Capture" /\ ~reqs[i].bound
          THEN [@ EXCEPT !.pc = "answered", !.status = 400]
          ELSE IF ~StoreGet(sessions, reqs[i].id)
          THEN [@ EXCEPT !.pc = "answered", !.status = 404]
          ELSE [@ EXCEPT !.pc = "got"]]
    /\ UNCHANGED <<pipeline, hmac, office, rest, files, editor, dockey, sessions, ctxs,
                   issuedIDs>>

\* CloseSession i, which found the session, calls h.sessions.Delete and
\* answers 204: under the write lock the contexts of a session still in
\* the map are cancelled and the entry is deleted.
CloseSession(i) ==
    /\ reqs[i].pc = "got"
    /\ reqs[i].op = "CloseSession"
    /\ sessions' = StoreDelete(sessions, reqs[i].id)
    /\ ctxs' = IF StoreGet(sessions, reqs[i].id)
               THEN [ctxs EXCEPT ![reqs[i].id] =
                         [tab |-> "cancelled", alloc |-> "cancelled"]]
               ELSE ctxs
    /\ reqs' = [reqs EXCEPT ![i] = [@ EXCEPT !.pc = "answered", !.status = 204]]
    /\ UNCHANGED <<pipeline, hmac, office, rest, files, editor, dockey, issuedIDs>>

\* Capture, ScreenStream or SendInput i, which found the session, works on
\* the session's tab and answers.
Serve(i, status) ==
    /\ reqs[i].pc = "got"
    /\ reqs[i].op # "CloseSession"
    /\ status \in Served(reqs[i].op)
    /\ reqs' = [reqs EXCEPT ![i] = [@ EXCEPT !.pc = "answered", !.status = status]]
    /\ UNCHANGED <<pipeline, hmac, office, rest, files, editor, dockey, sessions, ctxs,
                   issuedIDs>>

NextBrowser ==
    \/ CreateSession
    \/ \E op \in SessionOps, id \in SessionIDs :
          \E bound \in (IF op = "Capture" THEN BOOLEAN ELSE {TRUE}) :
             Begin(op, id, bound)
    \/ \E i \in DOMAIN reqs : Lookup(i)
    \/ \E i \in DOMAIN reqs : CloseSession(i)
    \/ \E i \in DOMAIN reqs, status \in {200, 204, 400, 500} : Serve(i, status)

SpecBrowser == InitBrowser /\ [][NextBrowser]_vars

-----------------------------------------------------------------------------
(* Browser handler: sessionStore under concurrent requests                 *)
(* The requests on one session run on goroutines of their own.  Each       *)
(* acquisition and release of sessionStore.mu and each access to the map   *)
(* is one step.  The session is stored by a CreateSession that runs beside *)
(* the requests.                                                           *)

\* The goroutines of the requests on the session, and of CreateSession.
Callers == {"r1", "r2", "r3"}

Creator == "create"

\* Mutation of CanLock: Lock does not wait for the holders of the mutex.
CanLockAlways(m) == TRUE

\* sync.RWMutex.Lock returns: no writer and no reader holds the mutex
CanLock(m) == m.writer = "none" /\ m.readers = {}

\* sync.RWMutex.RLock returns: no writer holds the mutex
CanRLock(m) == m.writer = "none"

\* A goroutine is at an access to s.data.
Reading(h) == handlers[h].pc = "read"

Writing(h) == handlers[h].pc \in {"check", "drop", "put"}

\* A request that has not arrived.
NoCaller == [op |-> "none", pc |-> "idle", found |-> FALSE, status |-> 0]

\* What the goroutines of this section leave alone.
nonClosing == <<pipeline, hmac, office, editor, dockey, browser, files, saving,
                streaming, probing>>

InitClose ==
    /\ PipelineIdle
    /\ TokensIdle
    /\ OfficeIdle
    /\ handlers \in [Callers \cup {Creator} -> {NoCaller}]

\* The handler moves to the record r.
Moves(h, r) == handlers' = [handlers EXCEPT ![h] = r]

\* A request for the session arrives; CreateSession has built the session
\* and reaches h.sessions.Set.
Arrive(h, op) ==
    /\ handlers[h].pc = "idle"
    /\ (h = Creator) <=> (op = "CreateSession")
    /\ Moves(h, [NoCaller EXCEPT !.op = op, !.pc = IF h = Creator THEN "lock" ELSE "rlock"])
    /\ UNCHANGED <<nonClosing, mu, smap>>

\* sessionStore.Get: s.mu.RLock()
GetRLock(h) ==
    /\ handlers[h].pc = "rlock"
    /\ CanRLock(mu)
    /\ mu' = [mu EXCEPT !.readers = @ \cup {h}]
    /\ Moves(h, [handlers[h] EXCEPT !.pc = "read"])
    /\ UNCHANGED <<nonClosing, smap>>

\* sessionStore.Get: info, ok := s.data[id]
GetRead(h) ==
    /\ handlers[h].pc = "read"
    /\ Moves(h, [handlers[h] EXCEPT !.pc = "runlock", !.found = smap.stored])
    /\ UNCHANGED <<nonClosing, mu, smap>>

\* sessionStore.Get: s.mu.RUnlock().  A session that was not found is
\* answered 404; CloseSession goes on to Delete, the others to the tab.
GetRUnlock(h) ==
    /\ handlers[h].pc = "runlock"
    /\ mu' = [mu EXCEPT !.readers = @ \ {h}]
    /\ Moves(h, IF ~handlers[h].found
                THEN [handlers[h] EXCEPT !.pc = "answered", !.status = 404]
                ELSE IF handlers[h].op = "CloseSession"
                THEN [handlers[h] EXCEPT !.pc = "lock"]
                ELSE [handlers[h] EXCEPT !.pc = "serve"])
    /\ UNCHANGED <<nonClosing, smap>>

\* sessionStore.Delete and sessionStore.Set: s.mu.Lock()
StoreLock(h) ==
    /\ handlers[h].pc = "lock"
    /\ CanLock(mu)
    /\ mu' = [mu EXCEPT !.writer = h]
    /\ Moves(h, [handlers[h] EXCEPT !.pc = IF h = Creator THEN "put" ELSE "check"])
    /\ UNCHANGED <<nonClosing, smap>>

\* sessionStore.Set: s.data[id] = info
SetPut(h) ==
    /\ handlers[h].pc = "put"
    /\ smap' = [smap EXCEPT !.stored = TRUE]
    /\ Moves(h, [handlers[h] EXCEPT !.pc = "unlock"])
    /\ UNCHANGED <<nonClosing, mu>>

\* sessionStore.Delete: if info, ok := s.data[id]; ok
DeleteCheck(h) ==
    /\ handlers[h].pc = "check"
    /\ Moves(h, [handlers[h] EXCEPT !.pc = IF smap.stored THEN "drop" ELSE "unlock"])
    /\ UNCHANGED <<nonClosing, mu, smap>>

\* sessionStore.Delete: info.TabCancel(), info.AllocCancel(),
\* delete(s.data, id)
DeleteDrop(h) ==
    /\ handlers[h].pc = "drop"
    /\ smap' = [stored |-> FALSE, tabCancels |-> smap.tabCancels + 1,
                allocCancels |-> smap.allocCancels + 1]
    /\ Moves(h, [handlers[h] EXCEPT !.pc = "unlock"])
    /\ UNCHANGED <<nonClosing, mu>>

\* s.mu.Unlock(); CloseSession answers 204, CreateSession 200.
StoreUnlock(h) ==
    /\ handlers[h].pc = "unlock"
    /\ mu' = [mu EXCEPT !.writer = IF @ = h THEN "none" ELSE @]
    /\ Moves(h, [handlers[h] EXCEPT !.pc = "answered",
                                    !.status = IF h = Creator THEN 200 ELSE 204])
    /\ UNCHANGED <<nonClosing, smap>>

\* Capture, ScreenStream, SendInput: the handler works on the tab of the
\* session it holds and answers.
Work(h, status) ==
    /\ handlers[h].pc = "serve"
    /\ status \in Served(handlers[h].op)
    /\ Moves(h, [handlers[h] EXCEPT !.pc = "answered", !.status = status])
    /\ UNCHANGED <<nonClosing, mu, smap>>

NextClose ==
    \/ \E h \in Callers, op \in SessionOps : Arrive(h, op)
    \/ Arrive(Creator, "CreateSession")
    \/ \E h \in Callers : GetRLock(h)
    \/ \E h \in Callers : GetRead(h)
    \/ \E h \in Callers : GetRUnlock(h)
    \/ \E h \in Callers \cup {Creator} : StoreLock(h)
    \/ SetPut(Creator)
    \/ \E h \in Callers : DeleteCheck(h)
    \/ \E h \in Callers : DeleteDrop(h)
    \/ \E h \in Callers \cup {Creator} : StoreUnlock(h)
    \/ \E h \in Callers, status \in {200, 204, 400, 500} : Work(h, status)

SpecClose == InitClose /\ [][NextClose]_vars

-----------------------------------------------------------------------------
(* Browser handler: ScreenStream beside the screencast listener            *)
(* The listener that CreateSession registers stores every screencast       *)
(* frame in the session under frameMu; ScreenStream polls the session on   *)
(* every tick.  Each acquisition and release of frameMu and each access to *)
(* frameSeq and frameData is one step.  The n-th screencast event carries  *)
(* the frame data n; 0 stands for the empty string.                        *)

\* Screencast events a run follows.
MaxFrames == 3

\* What the steps of this section leave alone.
nonStream == <<pipeline, hmac, office, editor, dockey, browser, files, saving,
               closing, probing>>

InitStream ==
    /\ PipelineIdle
    /\ TokensIdle
    /\ OfficeIdle

\* A page.EventScreencastFrame reaches the listener: sess.frameMu.Lock()
FrameLock ==
    /\ listener.pc = "wait"
    /\ listener.events < MaxFrames
    /\ ~ctxDone.tab
    /\ CanLock(frameMu)
    /\ frameMu' = [frameMu EXCEPT !.writer = "listener"]
    /\ listener' = [pc |-> "data", events |-> listener.events + 1]
    /\ UNCHANGED <<nonStream, screen, streamer, ctxDone>>

\* sess.frameData = frame.Data
FrameData ==
    /\ listener.pc = "data"
    /\ screen' = [screen EXCEPT !.frameData = listener.events]
    /\ listener' = [listener EXCEPT !.pc = "seq"]
    /\ UNCHANGED <<nonStream, frameMu, streamer, ctxDone>>

\* sess.frameSeq++
FrameSeq ==
    /\ listener.pc = "seq"
    /\ screen' = [screen EXCEPT !.frameSeq = @ + 1]
    /\ listener' = [listener EXCEPT !.pc = "unlock"]
    /\ UNCHANGED <<nonStream, frameMu, streamer, ctxDone>>

\* sess.frameMu.Unlock()
FrameUnlock ==
    /\ listener.pc = "unlock"
    /\ frameMu' = [frameMu EXCEPT !.writer = "none"]
    /\ listener' = [listener EXCEPT !.pc = "wait"]
    /\ UNCHANGED <<nonStream, screen, streamer, ctxDone>>

\* ScreenStream has found the session and sent the headers: the loop starts
\* with lastSeq 0.
StreamOpen ==
    /\ streamer.pc = "idle"
    /\ streamer' = [streamer EXCEPT !.pc = "select"]
    /\ UNCHANGED <<nonStream, screen, frameMu, listener, ctxDone>>

\* select: case <-ticker.C
TickerFires ==
    /\ streamer.pc = "select"
    /\ streamer' = [streamer EXCEPT !.pc = "rlock"]
    /\ UNCHANGED <<nonStream, screen, frameMu, listener, ctxDone>>

\* select: case <-reqCtx.Done(), case <-sess.TabCtx.Done()
StreamReturn ==
    /\ streamer.pc = "select"
    /\ ctxDone.req \/ ctxDone.tab
    /\ streamer' = [streamer EXCEPT !.pc = "returned"]
    /\ UNCHANGED <<nonStream, screen, frameMu, listener, ctxDone>>

\* sess.frameMu.RLock()
StreamRLock ==
    /\ streamer.pc = "rlock"
    /\ CanRLock(frameMu)
    /\ frameMu' = [frameMu EXCEPT !.readers = @ \cup {"stream"}]
    /\ streamer' = [streamer EXCEPT !.pc = "seq"]
    /\ UNCHANGED <<nonStream, screen, listener, ctxDone>>

\* seq := sess.frameSeq
StreamSeq ==
    /\ streamer.pc = "seq"
    /\ streamer' = [streamer EXCEPT !.pc = "data", !.seq = screen.frameSeq]
    /\ UNCHANGED <<nonStream, screen, frameMu, listener, ctxDone>>

\* data := sess.frameData
StreamData ==
    /\ streamer.pc = "data"
    /\ streamer' = [streamer EXCEPT !.pc = "runlock", !.data = screen.frameData]
    /\ UNCHANGED <<nonStream, screen, frameMu, listener, ctxDone>>

\* sess.frameMu.RUnlock()
StreamRUnlock ==
    /\ streamer.pc = "runlock"
    /\ frameMu' = [frameMu EXCEPT !.readers = @ \ {"stream"}]
    /\ streamer' = [streamer EXCEPT !.pc = "write"]
    /\ UNCHANGED <<nonStream, screen, listener, ctxDone>>

\* Mutation of IsNewFrame: a frame is sent on every tick.
IsAnyFrame(seq, lastSeq, data) == data # 0

\* seq > lastSeq && data != ""
IsNewFrame(seq, lastSeq, data) == seq > lastSeq /\ data # 0

\* if seq > lastSeq && data != "": the frame is written and flushed
StreamWrite ==
    /\ streamer.pc = "write"
    /\ streamer' =
          IF IsNewFrame(streamer.seq, streamer.lastSeq, streamer.data)
          THEN [streamer EXCEPT
                   !.pc = "select",
                   !.lastSeq = streamer.seq,
                   !.written = Append(@, [seq |-> streamer.seq,
                                          data |-> streamer.data])]
          ELSE [streamer EXCEPT !.pc = "select"]
    /\ UNCHANGED <<nonStream, screen, frameMu, listener, ctxDone>>

\* The client goes away (request context), or the session is closed (tab
\* context).
CtxDone(which) ==
    /\ ~ctxDone[which]
    /\ ctxDone' = [ctxDone EXCEPT ![which] = TRUE]
    /\ UNCHANGED <<nonStream, screen, frameMu, listener, streamer>>

ListenerStep == FrameLock \/ FrameData \/ FrameSeq \/ FrameUnlock

StreamStep ==
    \/ TickerFires
    \/ StreamRLock
    \/ StreamSeq
    \/ StreamData
    \/ StreamRUnlock
    \/ StreamWrite

NextStream ==
    \/ ListenerStep
    \/ StreamOpen
    \/ StreamStep
    \/ StreamReturn
    \/ \E which \in {"req", "tab"} : CtxDone(which)

\* The goroutines keep running, and a select with several ready cases
\* picks among them at random: a case that is ready again and again is
\* taken in the end.
SpecStream ==
    /\ InitStream
    /\ [][NextStream]_vars
    /\ WF_vars(ListenerStep)
    /\ SF_vars(StreamStep)
    /\ SF_vars(StreamReturn)

-----------------------------------------------------------------------------
(* Knowledge handler: AnalyzeURL, isInternalURL, analyzeURL                *)
(* A URL is its scheme and its host.  The resolver and the sites are the   *)
(* environment: what a public site answers, a page or a redirect to any    *)
(* URL, is chosen at the start of a run.                                   *)

\* CheckRedirect: len(via) >= 5 stops the client
MaxVia == 5

Url(scheme, host) == [scheme |-> scheme, host |-> host]

\* The URLs of TestIsInternalURL, a link-local address, a host that does
\* not resolve and a name that resolves to a private address.
URLs ==
    { Url("http", "127.0.0.1"), Url("http", "localhost"), Url("http", "10.0.0.1"),
      Url("http", "169.254.169.254"), Url("http", "8.8.8.8"),
      Url("https", "example.com"), Url("ftp", "example.com"), Url("", ""),
      Url("http", "nx.example"), Url("http", "intra.example") }

\* net.LookupIP: the addresses of a host, none when the lookup fails
LookupIP(host) ==
    CASE host = "example.com" -> {"93.184.216.34"}
      [] host = "intra.example" -> {"10.0.0.1"}
      [] host \in {"nx.example", "localhost", ""} -> {}
      [] OTHER -> {host}

\* ip.IsLoopback() || ip.IsPrivate() || ip.IsLinkLocalUnicast()
IsInternalIP(ip) == ip \in {"127.0.0.1", "10.0.0.1", "169.254.169.254"}

\* isInternalURL
isInternalURL(u) ==
    \/ u.scheme \notin {"http", "https"}
    \/ u.host = ""
    \/ u.host = "localhost"
    \/ LookupIP(u.host) = {}
    \/ \E ip \in LookupIP(u.host) : IsInternalIP(ip)

PublicURLs == { u \in URLs : ~isInternalURL(u) }

\* What a site answers: a page, a PDF, 403, or a redirect to a URL.
Answers ==
    [kind : {"html", "pdf", "denied"}, to : {Url("", "")}]
    \cup [kind : {"redirect"}, to : URLs]

\* The transport can send a request to u: the scheme is one it supports and
\* the host leads to an address ("localhost" to the loopback address).
Dialable(u) ==
    /\ u.scheme \in {"http", "https"}
    /\ u.host = "localhost" \/ LookupIP(u.host) # {}

\* The answer of the site at u.
AnswerOf(u) ==
    IF u \in PublicURLs THEN web[u] ELSE [kind |-> "html", to |-> Url("", "")]

\* No URL analysed.
NoProbe == [pc |-> "idle", url |-> Url("", ""), at |-> Url("", ""), via |-> 0,
            status |-> 0]

\* What the steps of this section leave alone.
nonProbe == <<pipeline, hmac, office, editor, dockey, browser, files, saving,
              closing, streaming>>

InitProbe ==
    /\ PipelineIdle
    /\ TokensIdle
    /\ cfg = [enabled |-> TRUE, hmacSecret |-> "s1"]
    /\ served = NoServe
    /\ EditorIdle
    /\ DocKeyIdle
    /\ BrowserIdle
    /\ FilesIdle
    /\ SavingIdle
    /\ ClosingIdle
    /\ StreamingIdle
    /\ web \in [PublicURLs -> Answers]
    /\ probe = NoProbe
    /\ sent = {}

\* POST /knowledge/url/analyze with the URL u: the body does not bind, the
\* URL is internal, or analyzeURL starts with the HEAD request.
AnalyzeURL(u) ==
    /\ probe.pc = "idle"
    /\ probe' = IF u = Url("", "") \/ isInternalURL(u)
                THEN [NoProbe EXCEPT !.pc = "answered", !.url = u, !.status = 400]
                ELSE [NoProbe EXCEPT !.pc = "head", !.url = u, !.at = u]
    /\ UNCHANGED <<nonProbe, web, sent>>

\* analyzeHTTPClient.Do: one request of the client, to the URL it is at.
\* A redirect is followed while len(via) < 5.  When the HEAD request ends
\* with an HTML page the GET request starts from the submitted URL; in all
\* other cases the handler answers 200 with its finding.
ClientDo ==
    /\ probe.pc \in {"head", "get"}
    /\ LET answer == AnswerOf(probe.at)
           via == probe.via + 1
       IN IF ~Dialable(probe.at)
          THEN /\ probe' = [probe EXCEPT !.pc = "answered", !.status = 200]
               /\ UNCHANGED sent
          ELSE /\ sent' = sent \cup {probe.at}
               /\ probe' =
                     IF answer.kind = "redirect" /\ via < MaxVia
                     THEN [probe EXCEPT !.at = answer.to, !.via = via]
                     ELSE IF answer.kind = "html" /\ probe.pc = "head"
                     THEN [probe EXCEPT !.pc = "get", !.at = probe.url, !.via = 0]
                     ELSE [probe EXCEPT !.pc = "answered", !.status = 200]
    /\ UNCHANGED <<nonProbe, web>>

NextProbe ==
    \/ \E u \in URLs : AnalyzeURL(u)
    \/ ClientDo

SpecProbe == InitProbe /\ [][NextProbe]_vars

-----------------------------------------------------------------------------
(* Upload checks: knowledge_filetype.go, which src/ holds in two variants,  *)
(* src/unnamed/part_002 and src/unnamed/part_003.  A build has one of      *)
(* them.  A file name is a directory and the parts of the base name        *)
(* between its dots; a text is the sequence of its pieces.                 *)

MB == 1024 * 1024

fullParseTypes_002 ==
    {
      "pdf", "docx", "doc", "md", "markdown", "txt", "csv", "xlsx", "xls",
      "jpg", "jpeg", "png", "gif", "bmp", "tiff", "webp", "eml", "msg",
      "enex", "mht", "mhtml", "ipynb" }

convertParseTypes_002 ==
    {
      "pptx", "ppt", "pptm", "potx", "potm", "rtf", "odt", "ods", "odp",
      "wps", "docm", "dotx", "dotm", "xlsm", "xltx", "xltm", "pages",
      "numbers", "key", "vsdx", "vsd", "pub", "hwp", "hwpx" }

textAsIsTypes_002 ==
    {
      "py", "java", "go", "ts", "js", "jsx", "tsx", "vue", "c", "cpp", "h",
      "hpp", "cs", "rb", "rs", "php", "swift", "kt", "scala", "r", "lua",
      "pl", "dart", "zig", "nim", "asm", "s", "hs", "ex", "exs", "erl",
      "ml", "mli", "fs", "fsx", "clj", "cljs", "groovy", "v", "vhdl",
      "vhd", "sol", "json", "xml", "yaml", "yml", "toml", "ini", "conf",
      "cfg", "env", "properties", "gradle", "jsonl", "ndjson", "tsv", "sh",
      "bash", "zsh", "bat", "cmd", "ps1", "psm1", "html", "htm", "css",
      "less", "scss", "sass", "svg", "tex", "latex", "rst", "adoc", "org",
      "rmd", "qmd", "opml", "srt", "vtt", "ass", "ssa", "sub", "bib",
      "ris", "csl", "ics", "vcf", "log", "sql", "graphql", "proto",
      "thrift", "makefile", "dockerfile", "gemfile", "rakefile", "cmake",
      "gitignore", "editorconfig", "dockerignore", "prettierrc",
      "eslintrc", "babelrc", "npmrc", "yarnrc", "stylelintrc" }

storePreviewTypes_002 ==
    {
      "stl", "obj", "fbx", "gltf", "glb", "3ds", "dae", "ply", "dxf", "psd" }

fileTypeSizeOverrides_002 ==
    [t \in {"psd"} |-> 500 * MB]
    @@ [t \in {"epub"} |-> 200 * MB]
    @@ [t \in {"chm"} |-> 100 * MB]
    @@ [t \in {"jpg", "jpeg", "png", "gif", "bmp", "tiff", "webp"} |-> 20 * MB]

fullParseTypes_003 ==
    {
      "pdf", "txt", "md", "markdown", "docx", "doc", "xlsx", "xls", "png",
      "jpg", "jpeg", "gif", "bmp", "webp", "svg", "tiff", "tif", "csv",
      "tsv", "json", "jsonl", "xml", "html", "htm" }

convertParseTypes_003 ==
    {
      "pptx", "ppt", "odp", "rtf", "odt", "ods", "epub", "mobi", "azw3",
      "fb2", "tex", "latex" }

textAsIsTypes_003 ==
    {
      "py", "js", "ts", "jsx", "tsx", "go", "rs", "java", "kt", "kts", "c",
      "h", "cpp", "hpp", "cc", "cxx", "cs", "swift", "m", "mm", "rb",
      "php", "pl", "pm", "lua", "r", "jl", "scala", "clj", "ex", "exs",
      "erl", "hrl", "hs", "elm", "dart", "v", "vhdl", "vhd", "sh", "bash",
      "zsh", "fish", "ps1", "bat", "cmd", "css", "scss", "sass", "less",
      "vue", "svelte", "yaml", "yml", "toml", "ini", "cfg", "conf",
      "properties", "env", "cmake", "gradle", "sbt", "rst", "adoc",
      "asciidoc", "org", "textile", "sql", "graphql", "gql", "proto",
      "avro", "thrift", "log", "diff", "patch", "gitignore",
      "dockerignore", "editorconfig" }

storePreviewTypes_003 ==
    {
      "stl", "obj", "step", "stp", "iges", "igs", "dxf", "3mf", "fbx",
      "gltf", "glb", "mp3", "wav", "flac", "aac", "ogg", "wma", "mp4",
      "avi", "mkv", "mov", "wmv", "flv", "webm", "zip", "tar", "gz", "bz2",
      "xz", "7z", "rar", "psd", "ai", "sketch", "fig", "xd" }

fileTypeSizeOverrides_003 ==
    [t \in {"png", "jpg", "jpeg", "gif", "bmp", "webp", "svg", "tiff", "tif"} |-> 20 * MB]

\* well-known file names, lower-cased -> file type (the same in both variants)
specialFileNames ==
    [n \in {<< "makefile" >>} |-> "makefile"]
    @@ [n \in {<< "dockerfile" >>} |-> "dockerfile"]
    @@ [n \in {<< "gemfile" >>} |-> "gemfile"]
    @@ [n \in {<< "rakefile" >>} |-> "rakefile"]
    @@ [n \in {<< "cmakelists", "txt" >>} |-> "cmake"]

\* init() of part_002 adds the Calibre formats when ebook-convert is found
CalibreTypes == {"azw3", "azw", "prc", "mobi"}

\* The maps of the variant that is built, after init().
fullParseTypes ==
    IF build.part = "part_002"
    THEN fullParseTypes_002 \cup (IF build.calibre THEN CalibreTypes ELSE {})
    ELSE fullParseTypes_003

convertParseTypes ==
    IF build.part = "part_002" THEN convertParseTypes_002 ELSE convertParseTypes_003

textAsIsTypes ==
    IF build.part = "part_002" THEN textAsIsTypes_002 ELSE textAsIsTypes_003

storePreviewTypes ==
    IF build.part = "part_002" THEN storePreviewTypes_002 ELSE storePreviewTypes_003

fileTypeSizeOverrides ==
    IF build.part = "part_002" THEN fileTypeSizeOverrides_002
    ELSE fileTypeSizeOverrides_003

\* strategy -> default byte limit
fileSizeLimits ==
    [s \in {"full_parse"} |-> 50 * MB]
    @@ [s \in {"convert_parse"} |-> 100 * MB]
    @@ [s \in {"text_as_is"} |-> 10 * MB]
    @@ [s \in {"store_preview"} |-> 200 * MB]

defaultFullParseLimit == 50 * MB

\* strings.ToLower(base)
LowerName(base) == [i \in DOMAIN base |-> ToLower(base[i])]

\* filepath.Ext(base) without its dot, as a text of one piece: the part
\* after the last dot; no text when the name has no dot
Ext(base) == IF Len(base) >= 2 THEN << base[Len(base)] >> ELSE << >>

\* strings.HasPrefix(base, ".") && len(base) > 1
HasDotPrefix(base) == Len(base) >= 2 /\ base[1] = ""

\* getFileTypeNew of the file whose base name (filepath.Base) is `base`
getFileTypeNew(base) ==
    IF LowerName(base) \in DOMAIN specialFileNames
    THEN specialFileNames[LowerName(base)]
    ELSE IF Ext(base) = << >>
    THEN IF HasDotPrefix(base) THEN ToLower(base[2]) ELSE "unknown"
    ELSE ToLower(Ext(base)[1])

\* getFileProcessStrategy: the first set that has the type, in the order of
\* the variant
getFileProcessStrategy(fileType) ==
    IF build.part = "part_002"
    THEN IF fileType \in fullParseTypes THEN "full_parse"
         ELSE IF fileType \in convertParseTypes THEN "convert_parse"
         ELSE IF fileType \in textAsIsTypes THEN "text_as_is"
         ELSE IF fileType \in storePreviewTypes THEN "store_preview"
         ELSE ""
    ELSE IF fileType \in fullParseTypes THEN "full_parse"
         ELSE IF fileType \in textAsIsTypes THEN "text_as_is"
         ELSE IF fileType \in convertParseTypes THEN "convert_parse"
         ELSE IF fileType \in storePreviewTypes THEN "store_preview"
         ELSE ""

isValidFileTypeNew(base) ==
    LET ft == getFileTypeNew(base)
    IN IF ft = "unknown" THEN FALSE
       ELSE \/ ft \in fullParseTypes
            \/ ft \in convertParseTypes
            \/ ft \in textAsIsTypes
            \/ ft \in storePreviewTypes

getFileSizeLimit(fileType) ==
    IF fileType \in DOMAIN fileTypeSizeOverrides
    THEN fileTypeSizeOverrides[fileType]
    ELSE IF getFileProcessStrategy(fileType) \in DOMAIN fileSizeLimits
    THEN fileSizeLimits[getFileProcessStrategy(fileType)]
    ELSE defaultFullParseLimit

\* size > limit
TooLarge(size, limit) == size > limit

\* validateFileSize: nil is the empty text
validateFileSize(fileType, size) ==
    LET limit == getFileSizeLimit(fileType)
    IN IF TooLarge(size, limit)
       THEN IF build.part = "part_002"
            THEN << "FILE_TOO_LARGE", ":", fileType, ":" >> \o FormatInt(size)
                     \o << ":" >> \o FormatInt(limit)
            ELSE << "file size " >> \o FormatInt(size)
                     \o << " bytes exceeds limit " >> \o FormatInt(limit)
                     \o << " bytes for type ", "\"", fileType, "\"" >>
       ELSE << >>

\* Base names of uploaded files, and the directories they come with.
BaseNames ==
    { << "report", "pdf" >>, << "code", "py" >>, << "style", "CSS" >>,
      << "archive", "tar", "gz" >>, << "", "gitignore" >>,
      << "", "editorconfig" >>, << "Makefile" >>, << "makefile" >>,
      << "Dockerfile" >>, << "DOCKERFILE" >>, << "Gemfile" >>, << "GemFile" >>,
      << "Rakefile" >>, << "RAKEFILE" >>, << "CMakeLists", "txt" >>,
      << "cmakelists", "TXT" >>, << "Makefile", "txt" >>, << "README" >>,
      << "noext" >>, << "model", "dwg" >>, << "app", "exe" >>,
      << "unknown", "zzz" >>, << "config", "yaml" >>, << "image", "jpg" >>,
      << "book", "epub" >>, << "book", "mobi" >>, << "slides", "pptx" >>,
      << "part", "stl" >>, << "paper", "tex" >>, << "page", "html" >>,
      << "file", "" >>, << "unknown" >> }

Directories == {"", "v1.2/"}

\* File types and sizes handed to validateFileSize.
SizedTypes ==
    {"pdf", "py", "pptx", "stl", "psd", "epub", "chm", "jpg", "svg", "mobi",
     "tex", "exe", "unknown", ""}

Sizes ==
    {0 - 1, 0, 1 * MB, 11 * MB, 21 * MB}
    \cup UNION { {l * MB - 1, l * MB, l * MB + 1} : l \in {10, 20, 50, 100, 200, 500} }

\* Either variant built, with or without ebook-convert on PATH.
InitFiles ==
    /\ PipelineIdle
    /\ TokensIdle
    /\ cfg = [enabled |-> TRUE, hmacSecret |-> "s1"]
    /\ served = NoServe
    /\ EditorIdle
    /\ DocKeyIdle
    /\ BrowserIdle
    /\ RestIdle
    /\ build \in [part : {"part_002", "part_003"}, calibre : BOOLEAN]
    /\ checked = NoCheck

\* An upload named dir + base is checked for its type.
CheckFileType(dir, base) ==
    /\ checked' = [NoCheck EXCEPT !.op = "isValidFileTypeNew", !.dir = dir,
                                  !.base = base,
                                  !.fileType = getFileTypeNew(base),
                                  !.strategy =
                                      getFileProcessStrategy(getFileTypeNew(base)),
                                  !.valid = isValidFileTypeNew(base)]
    /\ UNCHANGED <<pipeline, hmac, office, rest, editor, dockey, browser, build>>

\* An upload of type fileType and `size` bytes is checked for its size.
CheckFileSize(fileType, size) ==
    /\ checked' = [NoCheck EXCEPT !.op = "validateFileSize",
                                  !.fileType = fileType, !.size = size,
                                  !.strategy = getFileProcessStrategy(fileType),
                                  !.limit = getFileSizeLimit(fileType),
                                  !.err = validateFileSize(fileType, size)]
    /\ UNCHANGED <<pipeline, hmac, office, rest, editor, dockey, browser, build>>

NextFiles ==
    \/ \E dir \in Directories, base \in BaseNames : CheckFileType(dir, base)
    \/ \E fileType \in SizedTypes, size \in Sizes : CheckFileSize(fileType, size)

SpecFiles == InitFiles /\ [][NextFiles]_vars

-----------------------------------------------------------------------------
(* Reference run: the pipeline on the distinct knowledge bases kbs, taken   *)
(* in one fixed order, vector before keyword.  It depends on the set kbs    *)
(* and on the backend state only.                                           *)

CanonicalOrder == << KB1, KB2, FakeKB >>

RECURSIVE RefSearchInto(_, _, _)
RefSearchInto(acc, kbs, order) ==
    IF order = << >> THEN acc
    ELSE LET kb == Head(order)
             out == IF kb \in kbs /\ ~AllRetrieversFailed(kb)
                    THEN CollectPartial(kb, << "vector", "keyword" >>)
                    ELSE << >>
         IN RefSearchInto(UnionInto(acc, out), kbs, Tail(order))

RefSearch(kbs) == RefSearchInto(<< >>, kbs, CanonicalOrder)

RefRerank(cands) ==
    IF cands = << >> THEN << >>
    ELSE IF RerankCallSucceeds(Len(RerankBatch(cands)))
         THEN ApplyRerankThreshold(ScoredAll(RerankBatch(cands)))
         ELSE RerankOnError(cands)

RefResult(kbs) == FilterTopK(MergeCandidates(RefRerank(RefSearch(kbs))))

RefErr(kbs) == \A kb \in kbs : AllRetrieversFailed(kb)

PlainAll(s) == [i \in DOMAIN s |-> Cand(s[i].pid, s[i].kb, s[i].score, s[i].mt)]

AfterSearch == pc \in {"Rerank", "Merge", "FilterTopK", "Done"}

AfterRerank == pc \in {"Merge", "FilterTopK", "Done"}

-----------------------------------------------------------------------------
(* Claims *)

\* C1: every call to the rerank model carries at most RerankMaxBatch
\* passages, and when more than RerankMaxBatch candidates enter the stage,
\* the rerank service is up and some candidate scores at least the rerank
\* threshold, the final list is not empty.
C1_RerankBatchWithinMax ==
    /\ \A i \in DOMAIN rerankCalls : rerankCalls[i] <= RerankMaxBatch
    /\ ( /\ pc = "Done"
         /\ Len(searchOut) > RerankMaxBatch
         /\ rerankUp
         /\ \E c \in Range(searchOut) : RerankScore(c.pid) >= RerankThreshold )
       => result # << >>

\* C2: when the rerank model call fails, the stage outputs the pre-rerank
\* candidates in their order, and the request ends with a non-empty list and
\* no error.
C2_RerankFailureFallsBack ==
    /\ (AfterRerank /\ rerankFailed) => PlainAll(rerankOut) = searchOut
    /\ (pc = "Done" /\ rerankFailed) => (result # << >> /\ ~err)

\* C3: for every target whose Retrieve has returned, whatever the order in
\* which its two retrievers finished: Retrieve returned an error exactly when
\* both retrievers failed, and otherwise it returned exactly the candidates of
\* the retrievers that succeeded that reach their threshold.
C3_PartialFailureContained ==
    \A i \in DOMAIN joined :
        LET t == joined[i]
            kb == request[t]
        IN /\ engineErr[t] <=> (~up[<<kb, "vector">>] /\ ~up[<<kb, "keyword">>])
           /\ Range(engineOut[t]) =
                {c \in UNION {Range(Store(kb, m)) : m \in Modalities} :
                    up[<<kb, c.mt>>] /\ c.score >= Threshold(kb, c.mt)}

\* C3 witness: two targets returned with the keyword retriever failed and the
\* vector retriever answering, one for each completion order, both with
\* candidates and without error.
C3_Witness ==
    /\ Len(joined) = 2
    /\ arrived[1] = << "keyword", "vector" >>
    /\ arrived[2] = << "vector", "keyword" >>
    /\ \A t \in {1, 2} :
          /\ ~up[<<request[t], "keyword">>]
          /\ up[<<request[t], "vector">>]
          /\ engineOut[t] # << >>
          /\ ~engineErr[t]

\* C4: once CHUNK_SEARCH has ended, its list holds exactly the candidates of
\* the targets that did not fail, the failed targets are recorded, and the
\* aggregate error is reported exactly when every target failed.
C4_FanInExcludesFailedTargets ==
    AfterSearch =>
        /\ Range(searchOut) =
              UNION {Range(engineOut[t]) : t \in {u \in Targets : ~engineErr[u]}}
        /\ \A t \in Targets :
              engineErr[t] <=> \A m \in Modalities : ~up[<<request[t], m>>]
        /\ searchErr <=>
              \A t \in Targets : \A m \in Modalities : ~up[<<request[t], m>>]

\* C4 witness: one target failed, another returned candidates, and the stage
\* ended without the aggregate error and with those candidates.
C4_Witness ==
    /\ pc = "Rerank"
    /\ ~searchErr
    /\ \E t, u \in Targets :
          /\ engineErr[t]
          /\ ~engineErr[u]
          /\ engineOut[u] # << >>
          /\ Range(engineOut[u]) \subseteq Range(searchOut)

\* C5: a run that ends in Done returns either a list without error or the
\* error without a list; the error only when every target failed; and an
\* empty list while CHUNK_SEARCH returned candidates only when no stage after
\* it failed (the rerank scores were all below the threshold).
C5_ListOrAllTargetsFailed ==
    pc = "Done" =>
        /\ err => result = << >>
        /\ err => \A t \in Targets : engineErr[t]
        /\ (~err /\ searchOut # << >> /\ result = << >>) => ~rerankFailed

\* C6: the answer of a finished run is the reference run's, which depends on
\* the set of requested knowledge bases and the backend state only: not on
\* the order of the ids in the request, nor on the completion order of the
\* goroutines.
C6_OrderIndependent ==
    pc = "Done" =>
        /\ result = RefResult(Range(request))
        /\ err = RefErr(Range(request))

\* C6 witness: a finished request for two knowledge bases in which the
\* second target returned before the first, with a non-empty answer holding
\* passages of equal rerank score.
C6_Witness ==
    /\ pc = "Done"
    /\ Len(request) = 2
    /\ request[1] # request[2]
    /\ joined = << 2, 1 >>
    /\ \E i, j \in DOMAIN merged :
          i # j /\ EffectiveScore(merged[i]) = EffectiveScore(merged[j])
    /\ result # << >>

C9_ThresholdSemantics ==
    /\ \A i \in DOMAIN result : \A m \in result[i].mts :
          \E c \in Range(Store(result[i].kb, m)) :
              /\ c.pid = result[i].pid
              /\ c.score >= Threshold(result[i].kb, m)
    /\ \A i \in DOMAIN joined :
          LET t == joined[i]
              kb == request[t]
          IN \A m \in Modalities : \A c \in Range(Store(kb, m)) :
                (up[<<kb, m>>] /\ c.score = Threshold(kb, m))
                    => c \in Range(engineOut[t])

\* C9 witness: a finished run whose list holds a passage matched by a
\* candidate exactly at its threshold, from a knowledge base that also holds
\* a candidate of the same retriever type below the threshold.
C9_Witness ==
    /\ pc = "Done"
    /\ \E i \in DOMAIN result : \E m \in result[i].mts :
          /\ \E c \in Range(Store(result[i].kb, m)) :
                c.pid = result[i].pid /\ c.score = Threshold(result[i].kb, m)
          /\ \E c \in Range(Store(result[i].kb, m)) :
                c.score < Threshold(result[i].kb, m)

\* C10: the returned list never holds more than RerankTopK entries.
C10_TopKBound == Len(result) <= RerankTopK

\* C10 witness: a finished run in which more than RerankTopK passages were
\* merged and exactly RerankTopK are returned.
C10_Witness ==
    /\ pc = "Done"
    /\ Len(merged) > RerankTopK
    /\ Len(result) = RerankTopK

\* C11: the returned list is in descending order of effective score (rerank
\* score when the passage was scored, raw score otherwise); entries of equal
\* effective score are in ascending passage id order, so the sequence is
\* fixed by the set of merged entries: every merged entry that is not
\* returned ranks behind every returned one.
C11_SortedDescending ==
    LET Eff(e) == IF e.rscore >= 0 THEN e.rscore ELSE e.score
        Ahead(e, f) == \/ Eff(e) > Eff(f)
                       \/ Eff(e) = Eff(f) /\ e.pid < f.pid
    IN /\ \A i, j \in DOMAIN result : i < j => Ahead(result[i], result[j])
       /\ pc = "Done" =>
             /\ Range(result) \subseteq Range(merged)
             /\ \A e \in Range(merged) \ Range(result) :
                   \A i \in DOMAIN result : Ahead(result[i], e)

\* C11 witness: a finished run that returns two entries of equal effective
\* score, which the merge stage had put in the other order.
C11_Witness ==
    /\ pc = "Done"
    /\ Len(result) = 2
    /\ EffectiveScore(result[1]) = EffectiveScore(result[2])
    /\ merged = << result[2], result[1] >>

C14_StageOrder ==
    [][ /\ pc' # pc =>
            \/ <<pc, pc'>> \in {<<"Search", "Rerank">>, <<"Rerank", "Merge">>,
                                <<"Merge", "FilterTopK">>,
                                <<"FilterTopK", "Done">>}
            \/ /\ pc' = "Aborted"
               /\ pc \in {"Search", "Rerank", "Merge", "FilterTopK"}
               /\ ~partial /\ partial'
        /\ partial' # partial => pc' = "Aborted"
        /\ searchErr' # searchErr => pc = "Search" /\ pc' = "Rerank"
        /\ (rerankOut' # rerankOut \/ rerankCalls' # rerankCalls) =>
              pc = "Rerank" /\ pc' = "Merge"
        /\ merged' # merged => pc = "Merge" /\ pc' = "FilterTopK"
        /\ result' # result =>
              \/ pc = "FilterTopK" /\ pc' = "Done"
              \/ pc' = "Aborted" /\ pc # "Aborted"
        /\ pc \in {"Done", "Aborted"} => pc' = pc
      ]_vars

\* C14 witness: a request that went through every stage: candidates were
\* found, scored by the rerank model, merged and returned.
C14_Witness ==
    /\ pc = "Done"
    /\ searchOut # << >>
    /\ rerankCalls # << >>
    /\ merged # << >>
    /\ result # << >>
    /\ ~partial

\* C15: when the request is cancelled while some target's search is still
\* running, the orchestrator ends Aborted with the list tagged partial, and
\* the list is made of the candidates of the targets that had completed:
\* it holds only their passages, each with the best raw score among them,
\* and as many of them as top-K admits, the best ones first.
C15_PartialOnCancel ==
    (pc = "Aborted" /\ Range(joined) # Targets) =>
        LET done == UNION {Range(engineOut[t]) : t \in Range(joined)}
            pids == {c.pid : c \in done}
            Best(p) == CHOOSE x \in {c.score : c \in {d \in done : d.pid = p}} :
                          \A c \in done : c.pid = p => c.score <= x
            kept == {e.pid : e \in Range(result)}
        IN /\ partial
           /\ kept \subseteq pids
           /\ Len(result) = IF Cardinality(pids) > RerankTopK
                             THEN RerankTopK ELSE Cardinality(pids)
           /\ \A e \in Range(result) : e.score = Best(e.pid)
           /\ \A p \in pids \ kept : \A e \in Range(result) :
                  Best(p) <= e.score

\* C15 witness: the request was cancelled after one target had handed in
\* candidates and while a retriever of another target had answered but that
\* target had not completed; the list returned is not empty.
C15_Witness ==
    /\ pc = "Aborted"
    /\ partial
    /\ \E t \in Range(joined) : engineOut[t] # << >>
    /\ \E t \in Targets \ Range(joined) : arrived[t] # << >>
    /\ result # << >>

\* C16: in the end-to-end scenario (KB1 holds one vector match of 0.9, KB2
\* one vector match of 0.4 and one keyword match of 0.6, thresholds 0.5 and
\* 0.3), a query on both knowledge bases whose backend calls all answer
\* returns exactly two entries: KB1's vector match first, KB2's keyword
\* match second, in descending order of score, and no error.
C16_EndToEnd ==
    ( /\ pc = "Done"
      /\ RealKBs \subseteq Range(request)
      /\ \A kb \in RealKBs : \A m \in Modalities : up[<<kb, m>>]
      /\ rerankUp ) =>
        /\ ~err
        /\ Len(result) = 2
        /\ result[1].kb = KB1 /\ result[1].score = 9
        /\ result[1].mts = {"vector"}
        /\ result[2].kb = KB2 /\ result[2].score = 6
        /\ result[2].mts = {"keyword"}
        /\ EffectiveScore(result[1]) > EffectiveScore(result[2])

\* C16 witness: the scenario's query has finished with every backend
\* healthy, after KB2's vector retriever answered with its 0.4 match.
C16_Witness ==
    /\ scenario = "e2e"
    /\ pc = "Done"
    /\ request = << KB1, KB2 >>
    /\ \A kb \in RealKBs : \A m \in Modalities : up[<<kb, m>>]
    /\ rerankUp
    /\ Store(KB2, "vector")[1].score = 4
    /\ Len(result) = 2

C18_OneSearchPerKnowledgeBase ==
    LET started == {t \in Targets : arrived[t] # << >> \/ t \in Range(joined)}
    IN \A t, u \in started : t # u => request[t] # request[u]

\* C19 as claimed: for every secret, knowledgeID, tenantID and positive ttl,
\* validating the generated token with the same secret before its expiry
\* returns the knowledgeID and the tenantID it was generated with, and no
\* error.
C19_RoundTripEveryID ==
    ( /\ verdict.called
      /\ altered = "none"
      /\ verdict.secret = issued.secret
      /\ issued.ttl > 0
      /\ verdict.at <= issued.expiry ) =>
        /\ verdict.err = "nil"
        /\ verdict.kid = issued.kid
        /\ verdict.tid = issued.tid

\* C19: for every secret, every knowledgeID without the separator ":",
\* every tenantID and every positive ttl, validating the generated token
\* with the same secret before its expiry returns the knowledgeID and the
\* tenantID it was generated with, and no error.
C19_RoundTrip ==
    ( /\ verdict.called
      /\ altered = "none"
      /\ verdict.secret = issued.secret
      /\ issued.ttl > 0
      /\ verdict.at <= issued.expiry
      /\ ":" \notin Range(issued.kid) ) =>
        /\ verdict.err = "nil"
        /\ verdict.kid = issued.kid
        /\ verdict.tid = issued.tid

\* C19 witness: a token for a non-empty knowledgeID and a two-digit
\* tenantID, generated with a positive ttl, was validated with the same
\* secret in the last second of its life, after the clock had gone from
\* one digit to two, and was accepted.
C19_Witness ==
    /\ verdict.called
    /\ altered = "none"
    /\ verdict.secret = issued.secret
    /\ issued.ttl > 0
    /\ issued.kid # << >>
    /\ ":" \notin Range(issued.kid)
    /\ issued.tid >= 10
    /\ issued.expiry >= 10
    /\ issued.expiry - issued.ttl < 10
    /\ verdict.at = issued.expiry
    /\ verdict.err = "nil"
    /\ verdict.kid = issued.kid

\* The fields of the token at hand and of the token as it was generated, as
\* SplitN cuts them.
HeldFields == SplitN(token.body, 4)

IssuedFields == SplitN(Payload(issued.kid, issued.tid, issued.expiry), 4)

\* The altered field was changed to a different value: another string for
\* the knowledgeID, not the same number written otherwise for the others.
AlteredValue ==
    CASE altered = "knowledgeID" -> HeldFields[1] # IssuedFields[1]
      [] altered = "tenantID" ->
            ~ ( /\ ParseUintOk(HeldFields[2]) /\ ParseUintOk(IssuedFields[2])
                /\ DecimalValue(HeldFields[2]) = DecimalValue(IssuedFields[2]) )
      [] altered = "expiry" ->
            ~ ( /\ ParseIntOk(HeldFields[3]) /\ ParseIntOk(IssuedFields[3])
                /\ ParseIntValue(HeldFields[3]) = ParseIntValue(IssuedFields[3]) )
      [] OTHER -> FALSE

\* The token was validated after one of its fields had been changed to a
\* different value, or with another secret than the one it was generated
\* with.
ForgeryValidated ==
    /\ verdict.called
    /\ AlteredValue \/ verdict.secret # issued.secret

\* The expiry the token carried when it was validated was not in the past:
\* the altered expiry when the expiry was altered, the generated one
\* otherwise.
ExpiryNotPast ==
    IF altered = "expiry"
    THEN ParseIntOk(HeldFields[3]) /\ verdict.at <= ParseIntValue(HeldFields[3])
    ELSE verdict.at <= issued.expiry

\* C20 as claimed: a token whose knowledgeID, tenantID or expiry was changed
\* to a different value, or that is validated with a different secret, is
\* rejected with 'invalid signature', an empty knowledgeID and tenantID 0
\* whenever its expiry is not in the past.
C20_ForgeryInvalidSignature ==
    (ForgeryValidated /\ ExpiryNotPast) =>
        /\ verdict.err = "invalid signature"
        /\ verdict.kid = << >>
        /\ verdict.tid = 0

\* C20: a token whose knowledgeID, tenantID or expiry was changed to a
\* different value, or that is validated with a different secret, is never
\* accepted: ValidateHMACToken returns an error, an empty knowledgeID and
\* tenantID 0.  The error is 'invalid signature' whenever the expiry is
\* not in the past, no knowledgeID involved contains ":" and the tenantID
\* and expiry fields are decimal numbers.
C20_ForgeryRejected ==
    ForgeryValidated =>
        /\ verdict.err # "nil"
        /\ verdict.kid = << >>
        /\ verdict.tid = 0
        /\ ( /\ ExpiryNotPast
             /\ ":" \notin Range(issued.kid)
             /\ Len(HeldFields) = 3
             /\ ":" \notin Range(HeldFields[1])
             /\ ParseUintOk(HeldFields[2])
             /\ ParseIntOk(HeldFields[3]) ) =>
                verdict.err = "invalid signature"

\* C20 witness: the tenantID of a token was replaced by another number and
\* the token, not yet expired, was validated with the secret it was
\* generated with and rejected for its signature.
C20_Witness ==
    /\ verdict.called
    /\ altered = "tenantID"
    /\ ":" \notin Range(issued.kid)
    /\ ParseUintOk(HeldFields[2])
    /\ DecimalValue(HeldFields[2]) # issued.tid
    /\ verdict.secret = issued.secret
    /\ verdict.at <= issued.expiry
    /\ verdict.err = "invalid signature"

\* C21 as claimed: a token validated with the secret it was generated with
\* is accepted while the clock is not past its expiry, and from the first
\* second after the expiry on every validation returns 'token expired'; a
\* token generated with ttl 0 is rejected one second later.
C21_ExpiryEveryID ==
    (verdict.called /\ altered = "none" /\ verdict.secret = issued.secret) =>
        /\ verdict.err = "nil" => verdict.at <= issued.expiry
        /\ verdict.at > issued.expiry =>
              /\ verdict.err = "token expired"
              /\ verdict.kid = << >>
              /\ verdict.tid = 0

\* C21: a token is accepted only while the clock is not past its expiry.
\* For a knowledgeID without ":", a token validated with the secret it was
\* generated with is accepted in every second up to and including its
\* expiry second, and from the first second after it every validation
\* returns 'token expired', whatever the secret; so a token generated with
\* ttl 0 is accepted in the second of its generation and rejected one
\* second later.
C21_Expiry ==
    verdict.called =>
        /\ verdict.err = "nil" =>
              /\ ParseIntOk(HeldFields[3])
              /\ verdict.at <= ParseIntValue(HeldFields[3])
        /\ (altered = "none" /\ ":" \notin Range(issued.kid)) =>
              /\ verdict.at > issued.expiry =>
                    /\ verdict.err = "token expired"
                    /\ verdict.kid = << >>
                    /\ verdict.tid = 0
              /\ (verdict.at <= issued.expiry
                    /\ verdict.secret = issued.secret) => verdict.err = "nil"

\* C21 witness: a token generated with ttl 0 for a knowledgeID without ":"
\* was validated with its own secret one second after its generation and
\* refused as expired.
C21_Witness ==
    /\ verdict.called
    /\ altered = "none"
    /\ ":" \notin Range(issued.kid)
    /\ issued.ttl = 0
    /\ verdict.secret = issued.secret
    /\ verdict.at = issued.expiry + 1
    /\ verdict.err = "token expired"

\* C22: ServeFile calls GetKnowledgeFile only when the integration is
\* enabled and the token at hand was generated with the configured HMAC
\* secret for the document asked for, still carries the generated values
\* and has not expired, and it does call it for every such token of a
\* knowledgeID without ":", streaming the file with 200 when it is found.
\* With the integration enabled every other request, be its token made up,
\* altered, signed with another secret, expired or issued for another
\* document, gets 403 and no GetKnowledgeFile call; with the integration
\* disabled every request gets 404 and no call.
C22_ServeFileGuarded ==
    served.called =>
        LET genuine == /\ token.set /\ token.sig # << >>
                       /\ issued.secret = cfg.hmacSecret
                       /\ altered = "none" \/ ~AlteredValue
                       /\ clock <= issued.expiry
                       /\ served.id = issued.kid
        IN /\ served.fileCall => cfg.enabled /\ genuine
           /\ ( /\ cfg.enabled /\ genuine /\ altered = "none"
                /\ ":" \notin Range(issued.kid) ) =>
                    /\ served.fileCall
                    /\ served.tenant = issued.tid
           /\ served.streamed => served.fileCall /\ served.status = 200
           /\ (served.fileCall /\ ~served.streamed) => served.status = 404
           /\ (cfg.enabled /\ ~served.fileCall) => served.status = 403
           /\ ~cfg.enabled => served.status = 404 /\ ~served.fileCall

\* C22 witness: with the integration enabled, a live token generated with
\* the configured secret for one document was presented for another
\* document and refused with 403 without a GetKnowledgeFile call.
C22_Witness ==
    /\ served.called
    /\ cfg.enabled
    /\ token.set /\ altered = "none" /\ token.sig # << >>
    /\ issued.secret = cfg.hmacSecret
    /\ ":" \notin Range(issued.kid)
    /\ clock <= issued.expiry
    /\ served.id # issued.kid
    /\ served.status = 403
    /\ ~served.fileCall

\* C23: whenever GetEditorConfig answers 200, editorConfig.mode is "edit"
\* and document.permissions.edit is true exactly when mode=edit was asked,
\* the extension is in editableTypes and the knowledge is neither pending
\* nor processing; otherwise the mode is "view" and edit is false.  A known
\* knowledge whose extension is outside docTypeMap is answered 400 by the
\* configured integration.
C23_EditorMode ==
    last.handler = "GetEditorConfig" =>
        LET ext == ToLower(ExtOf(last.asked.fileName))
            mayEdit == /\ last.asked.mode = "edit"
                       /\ ext \in editableTypes
                       /\ last.asked.parseStatus \notin {"pending", "processing"}
        IN /\ last.status = 200 =>
                /\ (last.body.mode = "edit") <=> mayEdit
                /\ (last.body.edit = TRUE) <=> mayEdit
                /\ ~mayEdit => last.body.mode = "view" /\ last.body.edit = FALSE
                /\ ext \in DOMAIN docTypeMap
           /\ (cfg.enabled /\ last.asked.id = StoredID
                   /\ ext \notin DOMAIN docTypeMap) => last.status = 400

\* C23 witness: edit was asked for an editable file that is being parsed,
\* and the answer is 200.
C23_Witness ==
    /\ last.handler = "GetEditorConfig"
    /\ last.status = 200
    /\ last.asked.mode = "edit"
    /\ last.asked.fileName = << "REPORT", "DOCX" >>
    /\ last.asked.parseStatus = "processing"

\* C24: a callback without token, with an empty or malformed token, with a
\* token signed with another secret or a non-HMAC method, and any callback
\* to the disabled integration, makes no call to the knowledge, tenant or
\* file service, downloads nothing, writes nothing to Redis, and leaves the
\* knowledge, its file and the Redis keys as they were.
C24_RejectedCallbackInert ==
    [][ ( /\ last' # last
          /\ last'.handler = "HandleCallback"
          /\ \/ ~cfg.enabled
             \/ last'.asked.token \in {"absent", "empty", "malformed",
                                       "wrongSecret", "nonHmac"} )
        => ( /\ last'.calls = NoCalls
             /\ UNCHANGED <<kstore, redis>> ) ]_vars

\* C24 witness: with the integration enabled and a dirty flag set, a
\* callback whose token was signed with another secret has been answered.
C24_Witness ==
    /\ cfg.enabled
    /\ last.handler = "HandleCallback"
    /\ last.asked.token = "wrongSecret"
    /\ last.asked.dirty
    /\ kstore.fileRev > 0

\* C25 as claimed: HandleCallback answers every request with HTTP 200 and
\* {"error": 0}.
C25_AlwaysErrorZero ==
    last.handler = "HandleCallback" =>
        last.status = 200 /\ last.body.error = "0"

\* C26: only callbacks of status 2 or 6 download and overwrite; a status-4
\* callback never does, and with no dirty flag set it makes no knowledge
\* update and no reparse; a callback of any other status makes no call.
C26_SaveOnlyOnStatus2Or6 ==
    last.handler = "HandleCallback" =>
        /\ (last.calls.downloads > 0 \/ last.calls.overwrites > 0)
              => last.asked.status \in {2, 6}
        /\ last.asked.status = 4
              => /\ last.calls.downloads = 0 /\ last.calls.overwrites = 0
                 /\ ~last.asked.dirty
                       => last.calls.updates = 0 /\ last.calls.reparses = 0
        /\ last.asked.status \notin {2, 4, 6} => last.calls = NoCalls

\* C26 witness: a status-4 callback with a valid token for the stored
\* knowledge was answered while no dirty flag was set, after an earlier
\* callback had overwritten the file.
C26_Witness ==
    /\ last.handler = "HandleCallback"
    /\ last.asked.token = "valid"
    /\ last.asked.status = 4
    /\ last.asked.id = StoredID
    /\ ~last.asked.dirty
    /\ redis.present
    /\ kstore.fileRev > 0

\* The key of a generateDocKey call is the knowledge ID, an underscore and
\* 8 hexadecimal characters.
DocKeyForm(e) ==
    /\ Len(e.key) = Len(e.id) + 1 + 8
    /\ SubSeq(e.key, 1, Len(e.id)) = e.id
    /\ e.key[Len(e.id) + 1] = "_"
    /\ \A i \in (Len(e.id) + 2) .. Len(e.key) : e.key[i] \in HexChars

LateOrUnknown(i) ==
    reqs[i].afterClose \/ reqs[i].id = 0 \/ reqs[i].id > issuedIDs

\* The store holds exactly the sessions created and not yet closed, and
\* both contexts of a closed session are cancelled.
KnownUntilClosed ==
    /\ sessions = (1 .. issuedIDs) \ ClosedIDs
    /\ \A id \in ClosedIDs \cap DOMAIN ctxs :
          ctxs[id].tab = "cancelled" /\ ctxs[id].alloc = "cancelled"
    /\ \A id \in sessions : ctxs[id].tab = "live" /\ ctxs[id].alloc = "live"

\* C28 as claimed: the store holds a session from its CreateSession to the
\* first CloseSession on it, whose 204 leaves both contexts cancelled, and
\* every CloseSession, Capture, ScreenStream and SendInput that begins
\* after that 204, or names an ID never created, answers 404.
C28_LaterRequests404 ==
    /\ KnownUntilClosed
    /\ \A i \in DOMAIN reqs :
          (reqs[i].pc = "answered" /\ LateOrUnknown(i)) => reqs[i].status = 404

\* C28: the store holds a session from its CreateSession to the first
\* CloseSession on it, whose 204 leaves both contexts cancelled; every
\* CloseSession, ScreenStream and SendInput that begins after that 204, or
\* names an ID never created, answers 404, and so does every such Capture
\* whose body binds; a Capture whose body does not bind answers 400.
C28_SessionLifecycle ==
    /\ KnownUntilClosed
    /\ \A i \in DOMAIN reqs :
          (reqs[i].pc = "answered" /\ LateOrUnknown(i)) =>
              reqs[i].status =
                  IF reqs[i].op = "Capture" /\ ~reqs[i].bound THEN 400 ELSE 404

\* C28 witness: a session was created and closed with 204, and a Capture
\* that began afterwards with a body that binds has been answered.
C28_Witness ==
    /\ Len(reqs) = 2
    /\ reqs[1].op = "CloseSession" /\ reqs[1].status = 204
    /\ reqs[2].op = "Capture" /\ reqs[2].id = reqs[1].id
    /\ reqs[2].bound /\ reqs[2].afterClose
    /\ reqs[2].pc = "answered"

\* The limit of a file type as documented: the override of the type, else
\* the default of its strategy, else 50 MB.
DocumentedLimit(fileType, strategy) ==
    IF fileType \in DOMAIN fileTypeSizeOverrides
    THEN fileTypeSizeOverrides[fileType]
    ELSE IF strategy # "" THEN fileSizeLimits[strategy]
    ELSE 50 * MB

\* validateFileSize returns nil exactly for sizes up to the documented limit.
NilUpToLimit ==
    checked.op = "validateFileSize" =>
        /\ checked.limit = DocumentedLimit(checked.fileType, checked.strategy)
        /\ (checked.err = << >>) <=> (checked.size <= checked.limit)

\* C29 as claimed: validateFileSize returns nil exactly when the size is at
\* most the limit of the type (override, else strategy default, else
\* 50 MB), and otherwise the error FILE_TOO_LARGE:<type>:<size>:<limit>.
C29_FileTooLarge ==
    /\ NilUpToLimit
    /\ (checked.op = "validateFileSize" /\ checked.size > checked.limit) =>
          checked.err = << "FILE_TOO_LARGE", ":", checked.fileType, ":" >>
                            \o FormatInt(checked.size) \o << ":" >>
                            \o FormatInt(checked.limit)

\* No file type is in two strategy sets.
StrategySetsDisjoint ==
    /\ fullParseTypes \cap convertParseTypes = {}
    /\ fullParseTypes \cap textAsIsTypes = {}
    /\ fullParseTypes \cap storePreviewTypes = {}
    /\ convertParseTypes \cap textAsIsTypes = {}
    /\ convertParseTypes \cap storePreviewTypes = {}
    /\ textAsIsTypes \cap storePreviewTypes = {}

\* isValidFileTypeNew agrees with getFileProcessStrategy, and a name without
\* extension that is not special is typed "unknown" and rejected.
ValidIffStrategy ==
    checked.op = "isValidFileTypeNew" =>
        /\ checked.valid <=> checked.strategy \in {"full_parse", "convert_parse",
                                                   "text_as_is", "store_preview"}
        /\ (Len(checked.base) = 1
               /\ LowerName(checked.base) \notin DOMAIN specialFileNames)
              => (checked.fileType = "unknown" /\ ~checked.valid)

\* C30 as claimed: isValidFileTypeNew is true exactly when the type of the
\* name has one of the four strategies, no type is in two strategy sets,
\* Makefile, Dockerfile, Gemfile, Rakefile and CMakeLists.txt are accepted
\* in any letter case, and a name without extension that is not special is
\* typed "unknown" and rejected.
C30_ValidFileTypes ==
    /\ ValidIffStrategy
    /\ StrategySetsDisjoint
    /\ (checked.op = "isValidFileTypeNew"
           /\ LowerName(checked.base) \in
                 { << "makefile" >>, << "dockerfile" >>, << "gemfile" >>,
                   << "rakefile" >>, << "cmakelists", "txt" >> })
          => checked.valid

-----------------------------------------------------------------------------
(* Claims on the callbacks handled side by side                            *)

\* C31: withSaveLock gives mutual exclusion per knowledge ID: the save
\* functions of two callbacks for the same knowledge ID never execute at the
\* same time, however long the protected function runs.
C31_SaveMutualExclusion ==
    \A g, h \in Goroutines : g # h => ~(InSave(g) /\ InSave(h))

\* C32: on exit withSaveLock deletes the lock key only if the key still
\* holds the caller's own lock value, so a caller never removes a lock that
\* another caller holds; when both SetNX calls fail to acquire the lock the
\* protected function is not executed and the save counts as failed.
C32_OwnLockOnly ==
    /\ [](\A g \in Goroutines :
             runs[g].fault = "lock" =>
                /\ runs[g].pc \in {"mark", "answer"}
                /\ ~runs[g].ran
                /\ ~runs[g].ok
                /\ runs[g].did = "none")
    /\ [][ \A g \in Goroutines :
              runs[g].pc = "unlock" /\ runs'[g].pc = "mark" =>
                 /\ lockKey # g => lockKey' = lockKey
                 /\ lockKey = g => lockKey' = "none" ]_vars

\* A goroutine has left withSaveLock after its lock expired, and the lock of
\* the goroutine that acquired it meanwhile is still there.
C32_Witness ==
    \E g, h \in Goroutines :
       /\ g # h
       /\ runs[g].pc = "mark" /\ runs[g].ran
       /\ lockKey = h /\ InSave(h)

C34_NoReparseWhileParsing ==
    /\ [](\A g \in Goroutines :
             /\ runs[g].did = "reparse" =>
                   runs[g].parseStatus \in {"completed", "failed"}
             /\ runs[g].did # "none" =>
                   runs[g].status = 2 \/ (runs[g].status = 4 /\ runs[g].dirty))
    /\ [][ \A g \in Goroutines :
              /\ runs[g].pc = "decide" /\ runs'[g].pc # "decide"
              /\ runs[g].parseStatus \in {"pending", "processing"}
              => redis'.edited /\ runs'[g].did = "defer" ]_vars

\* A status-4 callback has deferred the reparse on the parse status it read,
\* and the parse has completed meanwhile.
C34_Witness ==
    \E g \in Goroutines :
       /\ runs[g].pc = "answer" /\ runs[g].status = 4
       /\ runs[g].did = "defer" /\ redis.edited
       /\ kstore.parseStatus = "completed"

C36_NoSavedEditUnparsed ==
    \A g \in Goroutines :
       /\ runs[g].pc = "answer" /\ runs[g].status \in {2, 4}
       /\ runs[g].status = 4 \/ runs[g].fault \in {"lookup", "lock", "download"}
       /\ \A h \in Goroutines \ {g} : runs[h].pc = "idle"
       => ~trace.unparsed

\* C37: HandleCallback acts only on callback data authenticated by the JWT:
\* the status and key used to decide on and perform a save are the values
\* covered by the verified token's signature, so a validly signed token
\* attached to a body with other values causes no save or reparse with the
\* unsigned body values.
C37_ActsOnSignedData ==
    /\ last.handler = "HandleCallback"
    /\ \/ last.calls.downloads > 0
       \/ last.calls.overwrites > 0
       \/ last.calls.reparses > 0
    => last.asked.signed

-----------------------------------------------------------------------------
(* Claims on the session store under concurrent requests                   *)

\* C38: for every interleaving of concurrent CloseSession requests on the
\* same session ID, and of CloseSession with Capture, ScreenStream or
\* SendInput, the session's TabCancel and AllocCancel are each invoked
\* exactly once, the store ends without the ID, and the store's map is never
\* read or written outside its lock.
C38_CloseExactlyOnce ==
    /\ smap.tabCancels <= 1
    /\ smap.allocCancels <= 1
    /\ \A h \in Callers \cup {Creator} :
          /\ Reading(h) => h \in mu.readers /\ mu.writer = "none"
          /\ Writing(h) => mu.writer = h /\ mu.readers = {}
          /\ handlers[h].op = "CloseSession" /\ handlers[h].status = 204 =>
                /\ smap.tabCancels = 1
                /\ smap.allocCancels = 1
                /\ ~smap.stored

\* Two CloseSession requests have both found the session and answered 204,
\* a third request has worked on it, and the session was cancelled once.
C38_Witness ==
    \E g, h, k \in Callers :
       /\ g # h
       /\ handlers[g].op = "CloseSession" /\ handlers[g].status = 204
       /\ handlers[h].op = "CloseSession" /\ handlers[h].status = 204
       /\ handlers[k].op = "ScreenStream" /\ handlers[k].status = 200
       /\ smap.tabCancels = 1 /\ smap.allocCancels = 1

-----------------------------------------------------------------------------
(* Claims on the screen stream                                             *)

\* The frames ScreenStream has written carry strictly increasing sequence
\* numbers.
WrittenInOrder ==
    \A i, j \in DOMAIN streamer.written :
       i < j => streamer.written[i].seq < streamer.written[j].seq

\* Every frame written is the data that one screencast event stored
\* together with that sequence number.
WrittenAsStored ==
    \A i \in DOMAIN streamer.written :
       /\ streamer.written[i].data = streamer.written[i].seq
       /\ streamer.written[i].seq \in 1 .. listener.events

\* C39: ScreenStream sends frames in strictly increasing sequence order:
\* every frame it writes has a sequence number greater than that of the last
\* frame it wrote, no frame is written twice, the (sequence, data) pair it
\* sends is the pair stored together by one screencast event even while the
\* listener is updating the frame, and the stream loop ends once the request
\* context or the session's tab context is done.
C39_StreamInOrder ==
    /\ [](WrittenInOrder /\ WrittenAsStored)
    /\ [](streamer.written # << >> =>
             streamer.lastSeq = streamer.written[Len(streamer.written)].seq)
    /\ (streamer.pc # "idle" /\ (ctxDone.req \/ ctxDone.tab))
          ~> (streamer.pc = "returned")

\* The stream has written the first and the third frame, skipping the
\* second, and has returned after the tab context was cancelled.
C39_Witness ==
    /\ streamer.pc = "returned"
    /\ ctxDone.tab /\ ~ctxDone.req
    /\ Len(streamer.written) = 2
    /\ streamer.written[1].seq = 1
    /\ streamer.written[2].seq = 3

-----------------------------------------------------------------------------
(* Claims on the URL analysis                                              *)

\* C40: SSRF protection of AnalyzeURL: the handler sends no HTTP request to
\* an address for which isInternalURL is true; this covers the submitted URL
\* and every URL reached through the redirects that the probing client
\* follows.
C40_NoRequestToInternal ==
    \A u \in sent : ~isInternalURL(u)

====
